---- MODULE Spec2Model ----
(***************************************************************************)
(* Model of the knowledge-graph store of opfs-memory:                      *)
(* src/memory/src/core/KnowledgeGraphManager.ts.                           *)
(*                                                                         *)
(* The backing file is a sequence of lines; each line is the record that   *)
(* JSON.parse yields for it (with its "type" tag).  A uuid or a timestamp  *)
(* of 0 stands for a missing (falsy) field.  Timestamps are integers       *)
(* ordered as the calendar times they denote.  crypto.randomUUID() is a    *)
(* counter: every call returns a value never returned before.              *)
(***************************************************************************)
EXTENDS Integers, Sequences, FiniteSets, TLC

\* ------------------------------------------------------------------ bounds
MaxClock == 2      \* the clock takes the values 1..MaxClock
MaxUuid == 2       \* Spec: at most MaxUuid records are created in one behaviour
MaxBatch == 2      \* longest batch passed to an operation
MaxDepth == 2      \* largest depth passed to getRelatedNodes
MaxStored == 2     \* SpecStored: most entities in the file a behaviour starts from
MaxChain == 3      \* SpecTraversal: most relations in the file a behaviour starts from
MaxLines == 3      \* SpecFormat: most lines in the file a behaviour starts from
MaxPage == 2       \* SpecRead: largest offset and largest limit of a page that cuts
MaxLevels == 4     \* SpecLoop: most iterations of the loop of getRelatedNodes that are run
MaxSets == 3       \* SpecPath: most setMemoryFilePath calls in one behaviour
MaxRequests == 3   \* SpecDispatch: most initialize requests and rejected tool calls together

Names == {"A", "B", "C"}
EntityTypes == {"person"}
RelationTypes == {"knows"}
DeletedRelationTypes == {"knows", "likes"}
ObsLists == {<<>>, <<"o1">>, <<"o1", "o1">>, <<"o2", "o1">>}
Procs == {1, 2}
Main == 1

SeqUpTo(S, n) == UNION {[1..k -> S] : k \in 0..n}

\* ------------------------------------------------------------- data model
EmptyGraph == [entries |-> <<>>, relations |-> <<>>]

EntityInputs == [name : Names, entityType : EntityTypes, observations : ObsLists]
RelationInputs == [from : Names, to : Names, relationType : RelationTypes]
ObservationInputs == [entityName : Names, contents : ObsLists]
DeletionInputs == [entityName : Names, observations : ObsLists]

\* Array.prototype.includes / some over a sequence.
includes(seq, x) == \E i \in 1..Len(seq) : seq[i] = x

\* Array.prototype.map over a sequence.
map(seq, f(_)) == [i \in 1..Len(seq) |-> f(seq[i])]

\* Array.prototype.filter over a sequence.
filter(seq, keep(_)) == SelectSeq(seq, keep)

\* ------------------------------------------------------------ load / save
\* entityLine that writes the entity without its uuid and timestamps.
entityLine_withoutBase(e) ==
  [type |-> "entity", uuid |-> 0, createdAt |-> 0, updatedAt |-> 0,
   name |-> e.name, entityType |-> e.entityType, observations |-> e.observations]

\* JSON.stringify({ type: "entity", ...e })
entityLine(e) ==
  [type |-> "entity", uuid |-> e.uuid, createdAt |-> e.createdAt,
   updatedAt |-> e.updatedAt, name |-> e.name, entityType |-> e.entityType,
   observations |-> e.observations]

\* JSON.stringify({ type: "relation", ...r })
relationLine(r) ==
  [type |-> "relation", uuid |-> r.uuid, createdAt |-> r.createdAt,
   updatedAt |-> r.updatedAt, from |-> r.from, to |-> r.to,
   relationType |-> r.relationType]

\* The lines saveGraph hands to fs.writeFile: every entity, then every relation.
saveLines(graph) == map(graph.entries, entityLine) \o map(graph.relations, relationLine)

\* One step of the reduce in loadGraph: a line that is an entity or a relation
\* is pushed, with all its fields (the type tag included) and with its missing
\* uuid / createdAt / updatedAt backfilled; any other line (unknown tag, or
\* JSON.parse threw) leaves the graph as it is.
\* loadLine that stamps every record it loads with the time of the load.
loadLine_restamp(acc, item, timestamp) ==
  LET fresh == item.uuid = 0
      uuid == IF fresh THEN acc.u ELSE item.uuid
      createdAt == IF item.createdAt = 0 THEN timestamp ELSE item.createdAt
  IN  IF item.type = "entity"
      THEN [graph |-> [acc.graph EXCEPT !.entries = Append(@,
                         [type |-> item.type,
                          uuid |-> uuid, createdAt |-> createdAt, updatedAt |-> timestamp,
                          name |-> item.name, entityType |-> item.entityType,
                          observations |-> item.observations])],
            u |-> IF fresh THEN acc.u + 1 ELSE acc.u]
      ELSE IF item.type = "relation"
      THEN [graph |-> [acc.graph EXCEPT !.relations = Append(@,
                         [type |-> item.type,
                          uuid |-> uuid, createdAt |-> createdAt, updatedAt |-> timestamp,
                          from |-> item.from, to |-> item.to,
                          relationType |-> item.relationType])],
            u |-> IF fresh THEN acc.u + 1 ELSE acc.u]
      ELSE acc

loadLine(acc, item, timestamp) ==
  LET fresh == item.uuid = 0
      uuid == IF fresh THEN acc.u ELSE item.uuid
      createdAt == IF item.createdAt = 0 THEN timestamp ELSE item.createdAt
      updatedAt == IF item.updatedAt = 0 THEN timestamp ELSE item.updatedAt
  IN  IF item.type = "entity"
      THEN [graph |-> [acc.graph EXCEPT !.entries = Append(@,
                         [type |-> item.type,
                          uuid |-> uuid, createdAt |-> createdAt, updatedAt |-> updatedAt,
                          name |-> item.name, entityType |-> item.entityType,
                          observations |-> item.observations])],
            u |-> IF fresh THEN acc.u + 1 ELSE acc.u]
      ELSE IF item.type = "relation"
      THEN [graph |-> [acc.graph EXCEPT !.relations = Append(@,
                         [type |-> item.type,
                          uuid |-> uuid, createdAt |-> createdAt, updatedAt |-> updatedAt,
                          from |-> item.from, to |-> item.to,
                          relationType |-> item.relationType])],
            u |-> IF fresh THEN acc.u + 1 ELSE acc.u]
      ELSE acc

RECURSIVE loadReduce(_, _, _)
loadReduce(lines, acc, timestamp) ==
  IF lines = <<>> THEN acc
  ELSE loadReduce(Tail(lines), loadLine(acc, Head(lines), timestamp), timestamp)

\* loadGraph that throws when the file is missing.
loadGraph_throwOnMissing(f, failure, timestamp, u) ==
  IF failure # "none" \/ ~f.exists THEN [graph |-> EmptyGraph, u |-> u, error |-> TRUE]
  ELSE LET r == loadReduce(f.lines, [graph |-> EmptyGraph, u |-> u], timestamp)
       IN  [graph |-> r.graph, u |-> r.u, error |-> FALSE]

\* loadGraph: fs.readFile rejects with the error code failure ("none" when the
\* file system has no error to report); an error other than ENOENT is thrown
\* again, a missing file (ENOENT) is the empty graph.  u is the next unused
\* uuid; the result carries the graph, the next unused uuid after backfill and
\* whether loadGraph threw.
loadGraph(f, failure, timestamp, u) ==
  IF failure # "none" THEN [graph |-> EmptyGraph, u |-> u, error |-> TRUE]
  ELSE IF ~f.exists THEN [graph |-> EmptyGraph, u |-> u, error |-> FALSE]
  ELSE LET r == loadReduce(f.lines, [graph |-> EmptyGraph, u |-> u], timestamp)
       IN  [graph |-> r.graph, u |-> r.u, error |-> FALSE]

\* ------------------------------------------------- load / save, key by key
\* The same two functions on objects as JavaScript keeps them: an object is the
\* sequence of its <<key, value>> pairs in insertion order, which is the order
\* JSON.stringify writes and JSON.parse restores.  A line of text is
\* [kind |-> "json", object |-> o] for the JSON text of the object o,
\* [kind |-> "text"] for text that JSON.parse rejects, [kind |-> "null"] for
\* the text null (JSON.parse accepts it and reading item.type throws) and
\* [kind |-> "blank"] for an empty or all-blank line.
hasKey(object, key) == \E i \in 1..Len(object) : object[i][1] = key

\* object[key]; a missing key reads as the falsy 0.
valueOf(object, key) ==
  IF hasKey(object, key)
  THEN object[CHOOSE i \in 1..Len(object) : object[i][1] = key][2]
  ELSE 0

\* assign that moves a key the object has to the end.
assign_moveToEnd(object, key, value) ==
  Append(SelectSeq(object, LAMBDA pair : pair[1] # key), <<key, value>>)

\* { ...object, key: value }: a key the object has keeps its place.
assign(object, key, value) ==
  IF hasKey(object, key)
  THEN [i \in 1..Len(object) |-> IF object[i][1] = key THEN <<key, value>> ELSE object[i]]
  ELSE Append(object, <<key, value>>)

\* { ...a, ...b }
RECURSIVE spread(_, _)
spread(a, b) ==
  IF b = <<>> THEN a
  ELSE spread(assign(a, Head(b)[1], Head(b)[2]), Tail(b))

stringify(object) == [kind |-> "json", object |-> object]

\* saveGraph: the lines it joins with "\n".
saveText(graph) ==
  map(graph.entries, LAMBDA e : stringify(spread(<<<<"type", "entity">>>>, e)))
  \o map(graph.relations, LAMBDA r : stringify(spread(<<<<"type", "relation">>>>, r)))

\* { ...item, uuid: item.uuid || generateUUID(), createdAt: ..., updatedAt: ... }
withBaseRecord(item, timestamp, u) ==
  LET uuid == IF valueOf(item, "uuid") # 0 THEN valueOf(item, "uuid") ELSE u
      createdAt == IF valueOf(item, "createdAt") # 0 THEN valueOf(item, "createdAt") ELSE timestamp
      updatedAt == IF valueOf(item, "updatedAt") # 0 THEN valueOf(item, "updatedAt") ELSE timestamp
  IN  assign(assign(assign(item, "uuid", uuid), "createdAt", createdAt), "updatedAt", updatedAt)

\* The reduce of loadGraph: a line JSON.parse rejects is caught and skipped, a
\* line with another tag (or none) is passed over.
RECURSIVE loadTextReduce(_, _, _)

\* loadTextReduce that gives up the lines read so far at a line it cannot use.
loadTextReduce_abort(lines, timestamp, u) ==
  IF lines = <<>> THEN [graph |-> EmptyGraph, u |-> u]
  ELSE LET line == lines[Len(lines)]
           acc == loadTextReduce(SubSeq(lines, 1, Len(lines) - 1), timestamp, u)
           type == IF line.kind = "json" /\ hasKey(line.object, "type")
                   THEN valueOf(line.object, "type") ELSE "undefined"
           fresh == valueOf(line.object, "uuid") = 0
       IN  IF type = "entity"
           THEN [graph |-> [acc.graph EXCEPT !.entries =
                              Append(@, withBaseRecord(line.object, timestamp, acc.u))],
                 u |-> IF fresh THEN acc.u + 1 ELSE acc.u]
           ELSE IF type = "relation"
           THEN [graph |-> [acc.graph EXCEPT !.relations =
                              Append(@, withBaseRecord(line.object, timestamp, acc.u))],
                 u |-> IF fresh THEN acc.u + 1 ELSE acc.u]
           ELSE [graph |-> EmptyGraph, u |-> acc.u]

loadTextReduce(lines, timestamp, u) ==
  IF lines = <<>> THEN [graph |-> EmptyGraph, u |-> u]
  ELSE LET line == lines[Len(lines)]
           acc == loadTextReduce(SubSeq(lines, 1, Len(lines) - 1), timestamp, u)
           type == IF line.kind = "json" /\ hasKey(line.object, "type")
                   THEN valueOf(line.object, "type") ELSE "undefined"
           fresh == valueOf(line.object, "uuid") = 0
       IN  IF type = "entity"
           THEN [graph |-> [acc.graph EXCEPT !.entries =
                              Append(@, withBaseRecord(line.object, timestamp, acc.u))],
                 u |-> IF fresh THEN acc.u + 1 ELSE acc.u]
           ELSE IF type = "relation"
           THEN [graph |-> [acc.graph EXCEPT !.relations =
                              Append(@, withBaseRecord(line.object, timestamp, acc.u))],
                 u |-> IF fresh THEN acc.u + 1 ELSE acc.u]
           ELSE acc

\* loadGraph on the lines of the text it read, blank lines filtered out.
loadText(lines, timestamp, u) ==
  loadTextReduce(filter(lines, LAMBDA line : line.kind # "blank"), timestamp, u)

\* The length in bytes of the JSON text of a line: the keys and punctuation of
\* the object, the strings of the record, a 36-character uuid and 24-character
\* ISO timestamps.  A line that is not JSON carries its length.
EntityOverhead == 101
RelationOverhead == 95
UuidLength == 36
TimestampLength == 24

RECURSIVE arrayLength(_)
arrayLength(strings) ==
  IF strings = <<>> THEN 0
  ELSE Len(Head(strings)) + 2 + (IF Len(strings) > 1 THEN 1 ELSE 0) + arrayLength(Tail(strings))

lineLength(line) ==
  IF line.type = "entity"
  THEN EntityOverhead + Len(line.name) + Len(line.entityType) + arrayLength(line.observations)
       + UuidLength + 2 * TimestampLength
  ELSE IF line.type = "relation"
  THEN RelationOverhead + Len(line.from) + Len(line.to) + Len(line.relationType)
       + UuidLength + 2 * TimestampLength
  ELSE line.length

\* The length of lines.join("\n").
RECURSIVE textLength(_)
textLength(lines) ==
  IF lines = <<>> THEN 0
  ELSE lineLength(Head(lines)) + (IF Len(lines) > 1 THEN 1 ELSE 0) + textLength(Tail(lines))

\* fs.writeFile writes its data from offset 0 of the file it opened.  When the
\* file holds more bytes than the data (another writer wrote after this one
\* opened it), the bytes beyond the data stay: the lines after the position the
\* data ends at, and, unless that position is a line end, one line that is not
\* JSON, made of the last line of the data and the rest of the line it cut.
written(current, lines) ==
  IF lines = <<>> THEN current
  ELSE IF textLength(lines) >= textLength(current) THEN lines
  ELSE LET n == textLength(lines)
           end(k) == textLength(SubSeq(current, 1, k))
           k == CHOOSE i \in 1..Len(current) : n <= end(i) /\ \A j \in 1..(i - 1) : end(j) < n
           rest == SubSeq(current, k + 1, Len(current))
       IN  IF n = end(k) THEN lines \o rest
           ELSE SubSeq(lines, 1, Len(lines) - 1)
                \o <<[type |-> "malformed",
                      length |-> lineLength(lines[Len(lines)]) + end(k) - n]>>
                \o rest

\* --------------------------------------------------------------- operations
\* Every operation is a function of the graph it loaded, its arguments, the
\* timestamp it took and the next unused uuid u.  It yields the in-memory graph
\* it ends with, its return value, whether it calls saveGraph, whether it threw,
\* and the next unused uuid.
Outcome(graph, result, save, error, u) ==
  [graph |-> graph, result |-> result, save |-> save, error |-> error, u |-> u]

\* createEntities that saves the graph whether or not it created an entity.
createEntities_alwaysSave(graph, entities, timestamp, u) ==
  LET candidates == filter(entities,
                      LAMBDA e : ~\E i \in 1..Len(graph.entries) : graph.entries[i].name = e.name)
      newEntities == [i \in 1..Len(candidates) |->
                        [uuid |-> u + i - 1, createdAt |-> timestamp, updatedAt |-> timestamp,
                         name |-> candidates[i].name, entityType |-> candidates[i].entityType,
                         observations |-> candidates[i].observations]]
  IN  Outcome([graph EXCEPT !.entries = @ \o newEntities], newEntities, TRUE, FALSE,
              u + Len(newEntities))

createEntities(graph, entities, timestamp, u) ==
  LET candidates == filter(entities,
                      LAMBDA e : ~\E i \in 1..Len(graph.entries) : graph.entries[i].name = e.name)
      newEntities == [i \in 1..Len(candidates) |->
                        [uuid |-> u + i - 1, createdAt |-> timestamp, updatedAt |-> timestamp,
                         name |-> candidates[i].name, entityType |-> candidates[i].entityType,
                         observations |-> candidates[i].observations]]
  IN  IF Len(newEntities) > 0
      THEN Outcome([graph EXCEPT !.entries = @ \o newEntities], newEntities, TRUE, FALSE,
                   u + Len(newEntities))
      ELSE Outcome(graph, newEntities, FALSE, FALSE, u)

\* createRelations that returns a record for every relation of the batch.
createRelations_returnBatch(graph, relations, timestamp, u) ==
  LET candidates == filter(relations,
                      LAMBDA r : ~\E i \in 1..Len(graph.relations) :
                                    /\ graph.relations[i].from = r.from
                                    /\ graph.relations[i].to = r.to
                                    /\ graph.relations[i].relationType = r.relationType)
      record(r, uuid) == [uuid |-> uuid, createdAt |-> timestamp, updatedAt |-> timestamp,
                          from |-> r.from, to |-> r.to, relationType |-> r.relationType]
      newRelations == [i \in 1..Len(candidates) |-> record(candidates[i], u + i - 1)]
  IN  IF Len(newRelations) > 0
      THEN Outcome([graph EXCEPT !.relations = @ \o newRelations],
                   [i \in 1..Len(relations) |-> record(relations[i], u + i - 1)], TRUE, FALSE,
                   u + Len(newRelations))
      ELSE Outcome(graph, [i \in 1..Len(relations) |-> record(relations[i], u + i - 1)],
                   FALSE, FALSE, u)

\* createRelations that takes the timestamp once per record, the clock having
\* advanced between two records.
createRelations_stampEach(graph, relations, timestamp, u) ==
  LET candidates == filter(relations,
                      LAMBDA r : ~\E i \in 1..Len(graph.relations) :
                                    /\ graph.relations[i].from = r.from
                                    /\ graph.relations[i].to = r.to
                                    /\ graph.relations[i].relationType = r.relationType)
      newRelations == [i \in 1..Len(candidates) |->
                         [uuid |-> u + i - 1, createdAt |-> timestamp + i - 1,
                          updatedAt |-> timestamp + i - 1,
                          from |-> candidates[i].from, to |-> candidates[i].to,
                          relationType |-> candidates[i].relationType]]
  IN  IF Len(newRelations) > 0
      THEN Outcome([graph EXCEPT !.relations = @ \o newRelations], newRelations, TRUE, FALSE,
                   u + Len(newRelations))
      ELSE Outcome(graph, newRelations, FALSE, FALSE, u)

\* createRelations that creates an entity for every "from" of a new relation
\* that names no stored entity.
createRelations_withEntities(graph, relations, timestamp, u) ==
  LET candidates == filter(relations,
                      LAMBDA r : ~\E i \in 1..Len(graph.relations) :
                                    /\ graph.relations[i].from = r.from
                                    /\ graph.relations[i].to = r.to
                                    /\ graph.relations[i].relationType = r.relationType)
      newRelations == [i \in 1..Len(candidates) |->
                         [uuid |-> u + i - 1, createdAt |-> timestamp, updatedAt |-> timestamp,
                          from |-> candidates[i].from, to |-> candidates[i].to,
                          relationType |-> candidates[i].relationType]]
      dangling == filter(candidates,
                         LAMBDA r : ~\E i \in 1..Len(graph.entries) : graph.entries[i].name = r.from)
      newEntities == [i \in 1..Len(dangling) |->
                        [uuid |-> u + Len(candidates) + i - 1, createdAt |-> timestamp,
                         updatedAt |-> timestamp, name |-> dangling[i].from,
                         entityType |-> "unknown", observations |-> <<>>]]
  IN  IF Len(newRelations) > 0
      THEN Outcome([entries |-> graph.entries \o newEntities,
                    relations |-> graph.relations \o newRelations], newRelations, TRUE, FALSE,
                   u + Len(newRelations) + Len(newEntities))
      ELSE Outcome(graph, newRelations, FALSE, FALSE, u)

createRelations(graph, relations, timestamp, u) ==
  LET candidates == filter(relations,
                      LAMBDA r : ~\E i \in 1..Len(graph.relations) :
                                    /\ graph.relations[i].from = r.from
                                    /\ graph.relations[i].to = r.to
                                    /\ graph.relations[i].relationType = r.relationType)
      newRelations == [i \in 1..Len(candidates) |->
                         [uuid |-> u + i - 1, createdAt |-> timestamp, updatedAt |-> timestamp,
                          from |-> candidates[i].from, to |-> candidates[i].to,
                          relationType |-> candidates[i].relationType]]
  IN  IF Len(newRelations) > 0
      THEN Outcome([graph EXCEPT !.relations = @ \o newRelations], newRelations, TRUE, FALSE,
                   u + Len(newRelations))
      ELSE Outcome(graph, newRelations, FALSE, FALSE, u)

\* graph.entries.find(e => e.name === name): the index of the first entity with
\* that name, 0 when there is none.
findEntity(entries, name) ==
  IF \E i \in 1..Len(entries) : entries[i].name = name
  THEN CHOOSE i \in 1..Len(entries) :
         /\ entries[i].name = name
         /\ \A j \in 1..(i - 1) : entries[j].name # name
  ELSE 0

\* The callback of observations.map in addObservations, applied to one pair: acc
\* carries the entries mutated so far, the results so far and whether an earlier
\* pair threw.
\* addObservations that skips a pair whose entity is missing, as
\* deleteObservations does.
addObservation_skipMissing(acc, o, timestamp) ==
  LET i == findEntity(acc.entries, o.entityName)
      newObservations == filter(o.contents, LAMBDA c : ~includes(acc.entries[i].observations, c))
  IN  IF i = 0 THEN acc
      ELSE [entries |-> IF Len(newObservations) > 0
                        THEN [acc.entries EXCEPT ![i].observations = @ \o newObservations,
                                                 ![i].updatedAt = timestamp]
                        ELSE acc.entries,
            results |-> Append(acc.results,
                               [entityName |-> o.entityName, addedObservations |-> newObservations]),
            error |-> FALSE]

\* addObservation that refreshes updatedAt whether or not it appended a string.
addObservation_alwaysTouch(acc, o, timestamp) ==
  LET i == findEntity(acc.entries, o.entityName)
      newObservations == filter(o.contents, LAMBDA c : ~includes(acc.entries[i].observations, c))
  IN  IF acc.error THEN acc
      ELSE IF i = 0 THEN [acc EXCEPT !.error = TRUE]
      ELSE [entries |-> [acc.entries EXCEPT ![i].observations = @ \o newObservations,
                                            ![i].updatedAt = timestamp],
            results |-> Append(acc.results,
                               [entityName |-> o.entityName, addedObservations |-> newObservations]),
            error |-> FALSE]

addObservation(acc, o, timestamp) ==
  LET i == findEntity(acc.entries, o.entityName)
      newObservations == filter(o.contents, LAMBDA c : ~includes(acc.entries[i].observations, c))
  IN  IF acc.error THEN acc
      ELSE IF i = 0 THEN [acc EXCEPT !.error = TRUE]
      ELSE [entries |-> IF Len(newObservations) > 0
                        THEN [acc.entries EXCEPT ![i].observations = @ \o newObservations,
                                                 ![i].updatedAt = timestamp]
                        ELSE acc.entries,
            results |-> Append(acc.results,
                               [entityName |-> o.entityName, addedObservations |-> newObservations]),
            error |-> FALSE]

RECURSIVE addObservationsMap(_, _, _)
addObservationsMap(observations, acc, timestamp) ==
  IF observations = <<>> THEN acc
  ELSE addObservationsMap(Tail(observations), addObservation(acc, Head(observations), timestamp),
                          timestamp)

\* addObservations that, when a pair names a missing entity, saves what the
\* earlier pairs appended before it throws.
addObservations_savePartial(graph, observations, timestamp, u) ==
  LET r == addObservationsMap(observations,
                              [entries |-> graph.entries, results |-> <<>>, error |-> FALSE],
                              timestamp)
  IN  IF r.error
      THEN Outcome([graph EXCEPT !.entries = r.entries], "Entity not found", TRUE, TRUE, u)
      ELSE Outcome([graph EXCEPT !.entries = r.entries], r.results, TRUE, FALSE, u)

addObservations(graph, observations, timestamp, u) ==
  LET r == addObservationsMap(observations,
                              [entries |-> graph.entries, results |-> <<>>, error |-> FALSE],
                              timestamp)
  IN  IF r.error
      THEN Outcome(graph, "Entity not found", FALSE, TRUE, u)
      ELSE Outcome([graph EXCEPT !.entries = r.entries], r.results, TRUE, FALSE, u)

\* deleteEntities with the cascade on r.from only.
deleteEntities_fromOnly(graph, entityNames, timestamp, u) ==
  Outcome([entries |-> filter(graph.entries, LAMBDA e : ~includes(entityNames, e.name)),
           relations |-> filter(graph.relations, LAMBDA r : ~includes(entityNames, r.from))],
          "void", TRUE, FALSE, u)

deleteEntities(graph, entityNames, timestamp, u) ==
  Outcome([entries |-> filter(graph.entries, LAMBDA e : ~includes(entityNames, e.name)),
           relations |-> filter(graph.relations,
                                LAMBDA r : ~includes(entityNames, r.from)
                                           /\ ~includes(entityNames, r.to))],
          "void", TRUE, FALSE, u)

\* The callback of deletions.forEach in deleteObservations.
deleteObservation(entries, d, timestamp) ==
  LET i == findEntity(entries, d.entityName)
      kept == filter(entries[i].observations, LAMBDA o : ~includes(d.observations, o))
  IN  IF i = 0 THEN entries
      ELSE IF Len(kept) # Len(entries[i].observations)
      THEN [entries EXCEPT ![i].observations = kept, ![i].updatedAt = timestamp]
      ELSE [entries EXCEPT ![i].observations = kept]

RECURSIVE deleteObservationsForEach(_, _, _)
deleteObservationsForEach(deletions, entries, timestamp) ==
  IF deletions = <<>> THEN entries
  ELSE deleteObservationsForEach(Tail(deletions),
                                 deleteObservation(entries, Head(deletions), timestamp),
                                 timestamp)

deleteObservations(graph, deletions, timestamp, u) ==
  Outcome([graph EXCEPT !.entries = deleteObservationsForEach(deletions, @, timestamp)],
          "void", TRUE, FALSE, u)

\* deleteRelations that matches a stored relation on from and to only.
deleteRelations_anyType(graph, relations, timestamp, u) ==
  Outcome([graph EXCEPT !.relations =
             filter(@, LAMBDA r : ~\E i \in 1..Len(relations) :
                                     /\ r.from = relations[i].from
                                     /\ r.to = relations[i].to)],
          "void", TRUE, FALSE, u)

deleteRelations(graph, relations, timestamp, u) ==
  Outcome([graph EXCEPT !.relations =
             filter(@, LAMBDA r : ~\E i \in 1..Len(relations) :
                                     /\ r.from = relations[i].from
                                     /\ r.to = relations[i].to
                                     /\ r.relationType = relations[i].relationType)],
          "void", TRUE, FALSE, u)

\* visitRelation without the relatedEntityNames.has(...) tests: both endpoints
\* are pushed every time.
visitRelation_noVisited(st, relation) ==
  [relatedEntityNames |-> st.relatedEntityNames \cup {relation.from, relation.to},
   nextLevelNodes |-> st.nextLevelNodes \o <<relation.from, relation.to>>]

\* One relation examined for one frontier node: an endpoint not yet in
\* relatedEntityNames is added to it and pushed on nextLevelNodes, from before to.
visitRelation(st, relation) ==
  LET s1 == IF relation.from \notin st.relatedEntityNames
            THEN [relatedEntityNames |-> st.relatedEntityNames \cup {relation.from},
                  nextLevelNodes |-> Append(st.nextLevelNodes, relation.from)]
            ELSE st
  IN  IF relation.to \notin s1.relatedEntityNames
      THEN [relatedEntityNames |-> s1.relatedEntityNames \cup {relation.to},
            nextLevelNodes |-> Append(s1.nextLevelNodes, relation.to)]
      ELSE s1

RECURSIVE visitRelations(_, _)
visitRelations(st, relatedRelations) ==
  IF relatedRelations = <<>> THEN st
  ELSE visitRelations(visitRelation(st, Head(relatedRelations)), Tail(relatedRelations))

\* The body of "for (const nodeName of nodesToProcess)".
RECURSIVE visitNodes(_, _, _)

\* visitNodes that follows a relation only from its "from" end.
visitNodes_forwardOnly(st, nodesToProcess, relations) ==
  IF nodesToProcess = <<>> THEN st
  ELSE LET nodeName == Head(nodesToProcess)
           relatedRelations == filter(relations, LAMBDA r : r.from = nodeName)
       IN  visitNodes(visitRelations(st, relatedRelations), Tail(nodesToProcess), relations)

visitNodes(st, nodesToProcess, relations) ==
  IF nodesToProcess = <<>> THEN st
  ELSE LET nodeName == Head(nodesToProcess)
           relatedRelations == filter(relations,
                                      LAMBDA r : r.from = nodeName \/ r.to = nodeName)
       IN  visitNodes(visitRelations(st, relatedRelations), Tail(nodesToProcess), relations)

\* The while loop of getRelatedNodes; yields relatedEntityNames.
RECURSIVE traverse(_, _, _, _, _)

\* traverse with "currentDepth <= depth" as the loop condition.
traverse_oneMore(currentDepth, depth, nodesToProcess, relatedEntityNames, relations) ==
  IF currentDepth <= depth /\ Len(nodesToProcess) > 0
  THEN LET st == visitNodes([relatedEntityNames |-> relatedEntityNames, nextLevelNodes |-> <<>>],
                            nodesToProcess, relations)
       IN  traverse(currentDepth + 1, depth, st.nextLevelNodes, st.relatedEntityNames, relations)
  ELSE relatedEntityNames

traverse(currentDepth, depth, nodesToProcess, relatedEntityNames, relations) ==
  IF currentDepth < depth /\ Len(nodesToProcess) > 0
  THEN LET st == visitNodes([relatedEntityNames |-> relatedEntityNames, nextLevelNodes |-> <<>>],
                            nodesToProcess, relations)
       IN  traverse(currentDepth + 1, depth, st.nextLevelNodes, st.relatedEntityNames, relations)
  ELSE relatedEntityNames

\* getRelatedNodes that returns only the relations whose two ends are names of
\* returned entities.
getRelatedNodes_entityEnds(graph, startingNodeName, depth, u) ==
  LET relatedEntityNames == traverse(0, depth, <<startingNodeName>>, {startingNodeName},
                                     graph.relations)
      entries == filter(graph.entries, LAMBDA e : e.name \in relatedEntityNames)
  IN  Outcome(graph,
              [entries |-> entries,
               relations |-> filter(graph.relations,
                                    LAMBDA r : /\ \E i \in 1..Len(entries) : entries[i].name = r.from
                                               /\ \E i \in 1..Len(entries) : entries[i].name = r.to)],
              FALSE, FALSE, u)

getRelatedNodes(graph, startingNodeName, depth, u) ==
  LET relatedEntityNames == traverse(0, depth, <<startingNodeName>>, {startingNodeName},
                                     graph.relations)
  IN  Outcome(graph,
              [entries |-> filter(graph.entries, LAMBDA e : e.name \in relatedEntityNames),
               relations |-> filter(graph.relations,
                                    LAMBDA r : r.from \in relatedEntityNames
                                               /\ r.to \in relatedEntityNames)],
              FALSE, FALSE, u)

\* String.prototype.toLowerCase, letter by letter.
UpperCase == "ABCDEFGHIJKLMNOPQRSTUVWXYZ"
LowerCase == "abcdefghijklmnopqrstuvwxyz"

RECURSIVE toLowerCase(_)

\* toLowerCase that leaves the string as it is.
toLowerCase_asIs(s) == s

toLowerCase(s) ==
  IF Len(s) = 0 THEN ""
  ELSE LET c == SubSeq(s, 1, 1)
           lower == IF \E i \in 1..Len(UpperCase) : SubSeq(UpperCase, i, i) = c
                    THEN LET i == CHOOSE i \in 1..Len(UpperCase) : SubSeq(UpperCase, i, i) = c
                         IN  SubSeq(LowerCase, i, i)
                    ELSE c
       IN  lower \o toLowerCase(SubSeq(s, 2, Len(s)))

\* String.prototype.includes: q occurs in s at some position.
stringIncludes(s, q) == \E i \in 0..(Len(s) - Len(q)) : SubSeq(s, i + 1, i + Len(q)) = q

\* Array.prototype.slice(start, end) with 0 <= start <= end.
slice(items, start, end) ==
  SubSeq(items, start + 1, IF end < Len(items) THEN end ELSE Len(items))

applyPagination(items, pagination) ==
  slice(items, pagination.offset, pagination.offset + pagination.limit)

\* A filter option that is absent is the empty list, the empty string or the
\* date 0; like an option that is present and empty, it does not filter.
NoFilter ==
  [entityTypes |-> <<>>, relationTypes |-> <<>>, searchText |-> "", fromDate |-> 0, toDate |-> 0]

\* applyFilters with toDate as an exclusive bound.
applyFilters_exclusiveTo(entities, relations, filterOptions) ==
  LET searchLower == toLowerCase(filterOptions.searchText)
      e1 == IF Len(filterOptions.entityTypes) > 0
            THEN filter(entities, LAMBDA e : includes(filterOptions.entityTypes, e.entityType))
            ELSE entities
      r1 == IF Len(filterOptions.relationTypes) > 0
            THEN filter(relations, LAMBDA r : includes(filterOptions.relationTypes, r.relationType))
            ELSE relations
      e2 == IF filterOptions.searchText # ""
            THEN filter(e1, LAMBDA e : \/ stringIncludes(toLowerCase(e.name), searchLower)
                                       \/ stringIncludes(toLowerCase(e.entityType), searchLower)
                                       \/ \E i \in 1..Len(e.observations) :
                                            stringIncludes(toLowerCase(e.observations[i]), searchLower))
            ELSE e1
      r2 == IF filterOptions.searchText # ""
            THEN filter(r1, LAMBDA r : \/ stringIncludes(toLowerCase(r.from), searchLower)
                                       \/ stringIncludes(toLowerCase(r.to), searchLower)
                                       \/ stringIncludes(toLowerCase(r.relationType), searchLower))
            ELSE r1
      e3 == IF filterOptions.fromDate # 0
            THEN filter(e2, LAMBDA e : e.updatedAt >= filterOptions.fromDate) ELSE e2
      r3 == IF filterOptions.fromDate # 0
            THEN filter(r2, LAMBDA r : r.updatedAt >= filterOptions.fromDate) ELSE r2
      e4 == IF filterOptions.toDate # 0
            THEN filter(e3, LAMBDA e : e.updatedAt < filterOptions.toDate) ELSE e3
      r4 == IF filterOptions.toDate # 0
            THEN filter(r3, LAMBDA r : r.updatedAt < filterOptions.toDate) ELSE r3
  IN  [filteredEntities |-> e4, filteredRelations |-> r4]

applyFilters(entities, relations, filterOptions) ==
  LET searchLower == toLowerCase(filterOptions.searchText)
      e1 == IF Len(filterOptions.entityTypes) > 0
            THEN filter(entities, LAMBDA e : includes(filterOptions.entityTypes, e.entityType))
            ELSE entities
      r1 == IF Len(filterOptions.relationTypes) > 0
            THEN filter(relations, LAMBDA r : includes(filterOptions.relationTypes, r.relationType))
            ELSE relations
      e2 == IF filterOptions.searchText # ""
            THEN filter(e1, LAMBDA e : \/ stringIncludes(toLowerCase(e.name), searchLower)
                                       \/ stringIncludes(toLowerCase(e.entityType), searchLower)
                                       \/ \E i \in 1..Len(e.observations) :
                                            stringIncludes(toLowerCase(e.observations[i]), searchLower))
            ELSE e1
      r2 == IF filterOptions.searchText # ""
            THEN filter(r1, LAMBDA r : \/ stringIncludes(toLowerCase(r.from), searchLower)
                                       \/ stringIncludes(toLowerCase(r.to), searchLower)
                                       \/ stringIncludes(toLowerCase(r.relationType), searchLower))
            ELSE r1
      e3 == IF filterOptions.fromDate # 0
            THEN filter(e2, LAMBDA e : e.updatedAt >= filterOptions.fromDate) ELSE e2
      r3 == IF filterOptions.fromDate # 0
            THEN filter(r2, LAMBDA r : r.updatedAt >= filterOptions.fromDate) ELSE r2
      e4 == IF filterOptions.toDate # 0
            THEN filter(e3, LAMBDA e : e.updatedAt <= filterOptions.toDate) ELSE e3
      r4 == IF filterOptions.toDate # 0
            THEN filter(r3, LAMBDA r : r.updatedAt <= filterOptions.toDate) ELSE r3
  IN  [filteredEntities |-> e4, filteredRelations |-> r4]

\* readGraph with hasMore computed from the entities alone.
readGraph_entitiesOnly(graph, pagination, filterOptions, u) ==
  LET filtered == applyFilters(graph.entries, graph.relations, filterOptions)
      totalEntities == Len(filtered.filteredEntities)
      totalRelations == Len(filtered.filteredRelations)
      total == IF totalEntities > totalRelations THEN totalEntities ELSE totalRelations
  IN  Outcome(graph,
              [items |-> [entries |-> applyPagination(filtered.filteredEntities, pagination),
                          relations |-> applyPagination(filtered.filteredRelations, pagination)],
               total |-> total,
               hasMore |-> totalEntities > pagination.offset + pagination.limit,
               nextOffset |-> {pagination.offset + pagination.limit}],
              FALSE, FALSE, u)

\* readGraph that saves the graph it loaded, backfill included.
readGraph_saving(graph, pagination, filterOptions, u) ==
  LET filtered == applyFilters(graph.entries, graph.relations, filterOptions)
      totalEntities == Len(filtered.filteredEntities)
      totalRelations == Len(filtered.filteredRelations)
      total == IF totalEntities > totalRelations THEN totalEntities ELSE totalRelations
  IN  Outcome(graph,
              [items |-> [entries |-> applyPagination(filtered.filteredEntities, pagination),
                          relations |-> applyPagination(filtered.filteredRelations, pagination)],
               total |-> total,
               hasMore |-> total > pagination.offset + pagination.limit,
               nextOffset |-> {pagination.offset + pagination.limit}],
              TRUE, FALSE, u)

readGraph(graph, pagination, filterOptions, u) ==
  LET filtered == applyFilters(graph.entries, graph.relations, filterOptions)
      totalEntities == Len(filtered.filteredEntities)
      totalRelations == Len(filtered.filteredRelations)
      total == IF totalEntities > totalRelations THEN totalEntities ELSE totalRelations
  IN  Outcome(graph,
              [items |-> [entries |-> applyPagination(filtered.filteredEntities, pagination),
                          relations |-> applyPagination(filtered.filteredRelations, pagination)],
               total |-> total,
               hasMore |-> total > pagination.offset + pagination.limit,
               nextOffset |-> {pagination.offset + pagination.limit}],
              FALSE, FALSE, u)

\* searchNodes that also matches a relation with one end in matchedEntityNames.
searchNodes_eitherEndpoint(graph, query, pagination, u) ==
  LET queryLower == toLowerCase(query)
      matchedEntities ==
        filter(graph.entries,
               LAMBDA e : \/ stringIncludes(toLowerCase(e.name), queryLower)
                          \/ stringIncludes(toLowerCase(e.entityType), queryLower)
                          \/ \E i \in 1..Len(e.observations) :
                               stringIncludes(toLowerCase(e.observations[i]), queryLower))
      matchedEntityNames == {matchedEntities[i].name : i \in 1..Len(matchedEntities)}
      matchedRelations ==
        filter(graph.relations,
               LAMBDA r : \/ stringIncludes(toLowerCase(r.from), queryLower)
                          \/ stringIncludes(toLowerCase(r.to), queryLower)
                          \/ stringIncludes(toLowerCase(r.relationType), queryLower)
                          \/ r.from \in matchedEntityNames \/ r.to \in matchedEntityNames)
      end == pagination.offset + pagination.limit
      hasMore == end < Len(matchedEntities) \/ end < Len(matchedRelations)
  IN  Outcome(graph,
              [items |-> [entries |-> slice(matchedEntities, pagination.offset, end),
                          relations |-> slice(matchedRelations, pagination.offset, end)],
               total |-> IF Len(matchedEntities) > Len(matchedRelations)
                         THEN Len(matchedEntities) ELSE Len(matchedRelations),
               hasMore |-> hasMore,
               nextOffset |-> IF hasMore THEN {end} ELSE {}],
              FALSE, FALSE, u)

\* searchNodes with hasMore and nextOffset computed from the entities alone.
searchNodes_entityPages(graph, query, pagination, u) ==
  LET queryLower == toLowerCase(query)
      matchedEntities ==
        filter(graph.entries,
               LAMBDA e : \/ stringIncludes(toLowerCase(e.name), queryLower)
                          \/ stringIncludes(toLowerCase(e.entityType), queryLower)
                          \/ \E i \in 1..Len(e.observations) :
                               stringIncludes(toLowerCase(e.observations[i]), queryLower))
      matchedEntityNames == {matchedEntities[i].name : i \in 1..Len(matchedEntities)}
      matchedRelations ==
        filter(graph.relations,
               LAMBDA r : \/ stringIncludes(toLowerCase(r.from), queryLower)
                          \/ stringIncludes(toLowerCase(r.to), queryLower)
                          \/ stringIncludes(toLowerCase(r.relationType), queryLower)
                          \/ r.from \in matchedEntityNames /\ r.to \in matchedEntityNames)
      totalEntities == Len(matchedEntities)
      totalRelations == Len(matchedRelations)
      end == pagination.offset + pagination.limit
      hasMoreEntities == end < totalEntities
      hasMoreRelations == end < totalRelations
  IN  Outcome(graph,
              [items |-> [entries |-> slice(matchedEntities, pagination.offset, end),
                          relations |-> slice(matchedRelations, pagination.offset, end)],
               total |-> IF totalEntities > totalRelations THEN totalEntities ELSE totalRelations,
               hasMore |-> hasMoreEntities,
               nextOffset |-> IF hasMoreEntities THEN {end} ELSE {}],
              FALSE, FALSE, u)

searchNodes(graph, query, pagination, u) ==
  LET queryLower == toLowerCase(query)
      matchedEntities ==
        filter(graph.entries,
               LAMBDA e : \/ stringIncludes(toLowerCase(e.name), queryLower)
                          \/ stringIncludes(toLowerCase(e.entityType), queryLower)
                          \/ \E i \in 1..Len(e.observations) :
                               stringIncludes(toLowerCase(e.observations[i]), queryLower))
      matchedEntityNames == {matchedEntities[i].name : i \in 1..Len(matchedEntities)}
      matchedRelations ==
        filter(graph.relations,
               LAMBDA r : \/ stringIncludes(toLowerCase(r.from), queryLower)
                          \/ stringIncludes(toLowerCase(r.to), queryLower)
                          \/ stringIncludes(toLowerCase(r.relationType), queryLower)
                          \/ r.from \in matchedEntityNames /\ r.to \in matchedEntityNames)
      totalEntities == Len(matchedEntities)
      totalRelations == Len(matchedRelations)
      end == pagination.offset + pagination.limit
      hasMoreEntities == end < totalEntities
      hasMoreRelations == end < totalRelations
  IN  Outcome(graph,
              [items |-> [entries |-> slice(matchedEntities, pagination.offset, end),
                          relations |-> slice(matchedRelations, pagination.offset, end)],
               total |-> IF totalEntities > totalRelations THEN totalEntities ELSE totalRelations,
               hasMore |-> hasMoreEntities \/ hasMoreRelations,
               nextOffset |-> IF hasMoreEntities \/ hasMoreRelations THEN {end} ELSE {}],
              FALSE, FALSE, u)

\* Max that yields the least element.
Max_least(S) == CHOOSE x \in S : \A y \in S : x <= y

\* The greatest element of a non-empty set of numbers (Math.max).
Max(S) == CHOOSE x \in S : \A y \in S : y <= x

\* entity.observations.length summed over the entries.
RECURSIVE observationCount(_)

\* observationCount that counts the entities.
observationCount_perEntity(entries) == Len(entries)

observationCount(entries) ==
  IF entries = <<>> THEN 0
  ELSE Len(Head(entries).observations) + observationCount(Tail(entries))

\* The timestamps the program writes are toISOString() strings; parsing one with
\* new Date(ts).getTime() and formatting the greatest with toISOString() yields
\* the latest of them.
getGraphStats(graph, u) ==
  LET allTimestamps == map(graph.entries, LAMBDA e : e.updatedAt)
                       \o map(graph.relations, LAMBDA r : r.updatedAt)
  IN  Outcome(graph,
              [entityCount |-> Len(graph.entries),
               relationCount |-> Len(graph.relations),
               observationCount |-> observationCount(graph.entries),
               lastUpdated |-> IF Len(allTimestamps) > 0
                               THEN [time |-> Max({allTimestamps[i] : i \in 1..Len(allTimestamps)})]
                               ELSE [text |-> "N/A"]],
              FALSE, FALSE, u)

\* ------------------------------------------------------------------- state
VARIABLES
  file,      \* the backing file: [exists, lines]
  clock,     \* what getCurrentTimestamp() returns now
  nextUuid,  \* the next value generateUUID() returns
  pc,        \* per caller: "idle", "saving" (writeFile issued), "writing" (file
             \* opened and truncated), "done" (the call returned or threw)
  call,      \* per caller: the operation of its latest call and its arguments
  before,    \* per caller: the file as its latest call's loadGraph read it
  result,    \* per caller: what its latest call returned, and whether it threw
  data,      \* per caller: the lines its latest call handed to fs.writeFile
  log,       \* overlapping calls: the reads, opens and writes of the file so far
  fault,     \* the error code fs.readFile rejects with for a reason other than a
             \* missing file (EACCES, EISDIR, EIO, ...), "none" when there is none
  memoryFilePath,         \* the field of the KnowledgeGraphManager in use; Null
                          \* (the field is null) until setMemoryFilePath sets it
  knowledgeGraphManager,  \* the server's variable: FALSE while it is null
  config,                 \* the variable of utils/config: [loaded, memoryFilePath]
  configFile              \* the file config.load() reads: [code, memoryFilePath],
                          \* code the error of reading or parsing it ("none",
                          \* "ENOENT", or another), memoryFilePath what its JSON gives

\* The variables of the manager's and the server's set-up.
setup == <<memoryFilePath, knowledgeGraphManager, config, configFile>>

vars == <<file, clock, nextUuid, pc, call, before, result, data, log, fault, setup>>

\* A memoryFilePath field that is null (setMemoryFilePath never stores "").
Null == ""

\* path.join(process.cwd(), 'memory.jsonl') with the working directory /cwd.
DefaultPath == "/cwd/memory.jsonl"

\* The set-up of a manager that was constructed and given its path, as the
\* server does with the default configuration.
Configured ==
  /\ memoryFilePath = DefaultPath
  /\ knowledgeGraphManager = TRUE
  /\ config = [loaded |-> TRUE, memoryFilePath |-> DefaultPath]
  /\ configFile = [code |-> "ENOENT", memoryFilePath |-> ""]

NoCall == [op |-> "none"]
NoResult == [value |-> "none", error |-> FALSE]

Init ==
  /\ file \in {[exists |-> FALSE, lines |-> <<>>], [exists |-> TRUE, lines |-> <<>>]}
  /\ clock = 1
  /\ nextUuid = 1
  /\ pc = [p \in Procs |-> "idle"]
  /\ call = [p \in Procs |-> NoCall]
  /\ before = [p \in Procs |-> [exists |-> FALSE, lines |-> <<>>]]
  /\ result = [p \in Procs |-> NoResult]
  /\ data = [p \in Procs |-> <<>>]
  /\ log = <<>>
  /\ Configured
  /\ fault = "none"

\* What the try block of loadGraph throws, "none" when nothing:
\* getMemoryFilePath() throws when the path is not set (an Error without a code,
\* thrown again by the catch), otherwise fs.readFile reports fault.
NotSet == "Memory file path not set. Configuration may not be loaded."

failure == IF memoryFilePath = Null THEN NotSet ELSE fault

\* loaded that serves the graph read by the other caller's latest call while
\* that call's result is still held: a cache shared across calls.
loaded_shared(p) ==
  IF \E q \in Procs \ {p} : pc[q] = "done"
  THEN loadGraph(before[CHOOSE q \in Procs \ {p} : pc[q] = "done"], fault, clock, nextUuid)
  ELSE loadGraph(file, fault, clock, nextUuid)

\* The graph caller p gets from loadGraph now.
loaded(p) == loadGraph(file, failure, clock, nextUuid)

\* Caller p runs call c whose outcome on the graph it loads now is body; when
\* its loadGraph throws, the call throws and nothing of its body runs.  With
\* atomic, saveGraph completes within the step (no other caller runs meanwhile);
\* otherwise the step ends at "await fs.writeFile(...)" and the open and the
\* write of the file are steps of their own.
Run(p, c, body, atomic) ==
  LET out == IF loaded(p).error THEN Outcome(EmptyGraph, failure, FALSE, TRUE, nextUuid) ELSE body
  IN
  /\ pc[p] = "idle"
  /\ call' = [call EXCEPT ![p] = c]
  /\ before' = [before EXCEPT ![p] = file]
  /\ result' = [result EXCEPT ![p] = [value |-> out.result, error |-> out.error]]
  /\ nextUuid' = out.u
  /\ data' = [data EXCEPT ![p] = IF out.save THEN saveLines(out.graph) ELSE <<>>]
  /\ IF out.save /\ ~atomic
     THEN /\ pc' = [pc EXCEPT ![p] = "saving"]
          /\ UNCHANGED file
     ELSE /\ pc' = [pc EXCEPT ![p] = "done"]
          /\ file' = IF out.save THEN [exists |-> TRUE, lines |-> written(<<>>, saveLines(out.graph))]
                     ELSE file
  /\ log' = IF atomic THEN log ELSE Append(log, [event |-> "read", by |-> p, lines |-> file.lines])
  /\ UNCHANGED <<clock, fault, setup>>

\* SaveOpen opening the file without truncating it (flag "r+").
SaveOpen_noTruncate(p) ==
  /\ pc[p] = "saving"
  /\ pc' = [pc EXCEPT ![p] = "writing"]
  /\ file' = [exists |-> TRUE, lines |-> file.lines]
  /\ log' = Append(log, [event |-> "open", by |-> p, lines |-> file.lines])
  /\ UNCHANGED <<clock, nextUuid, call, before, result, data, fault, setup>>

\* fs.writeFile opens the file with flag "w": the file is created or truncated.
SaveOpen(p) ==
  /\ pc[p] = "saving"
  /\ pc' = [pc EXCEPT ![p] = "writing"]
  /\ file' = [exists |-> TRUE, lines |-> <<>>]
  /\ log' = Append(log, [event |-> "open", by |-> p, lines |-> file.lines])
  /\ UNCHANGED <<clock, nextUuid, call, before, result, data, fault, setup>>

\* fs.writeFile writes its data and the promise of saveGraph resolves.
SaveWrite(p) ==
  /\ pc[p] = "writing"
  /\ pc' = [pc EXCEPT ![p] = "done"]
  /\ file' = [exists |-> TRUE, lines |-> written(file.lines, data[p])]
  /\ log' = Append(log, [event |-> "write", by |-> p, lines |-> file'.lines])
  /\ UNCHANGED <<clock, nextUuid, call, before, result, data, fault, setup>>

CreateEntities(p, entities, atomic) ==
  Run(p, [op |-> "createEntities", entities |-> entities],
      createEntities(loaded(p).graph, entities, clock, loaded(p).u), atomic)

CreateRelations(p, relations, atomic) ==
  Run(p, [op |-> "createRelations", relations |-> relations],
      createRelations(loaded(p).graph, relations, clock, loaded(p).u), atomic)

AddObservations(p, observations, atomic) ==
  Run(p, [op |-> "addObservations", observations |-> observations],
      addObservations(loaded(p).graph, observations, clock, loaded(p).u), atomic)

DeleteEntities(p, entityNames, atomic) ==
  Run(p, [op |-> "deleteEntities", entityNames |-> entityNames],
      deleteEntities(loaded(p).graph, entityNames, clock, loaded(p).u), atomic)

DeleteObservations(p, deletions, atomic) ==
  Run(p, [op |-> "deleteObservations", deletions |-> deletions],
      deleteObservations(loaded(p).graph, deletions, clock, loaded(p).u), atomic)

DeleteRelations(p, relations, atomic) ==
  Run(p, [op |-> "deleteRelations", relations |-> relations],
      deleteRelations(loaded(p).graph, relations, clock, loaded(p).u), atomic)

GetRelatedNodes(p, startingNodeName, depth, atomic) ==
  Run(p, [op |-> "getRelatedNodes", startingNodeName |-> startingNodeName, depth |-> depth],
      getRelatedNodes(loaded(p).graph, startingNodeName, depth, loaded(p).u), atomic)

SearchNodes(p, query, pagination, atomic) ==
  Run(p, [op |-> "searchNodes", query |-> query, pagination |-> pagination],
      searchNodes(loaded(p).graph, query, pagination, loaded(p).u), atomic)

ReadGraph(p, pagination, filterOptions, atomic) ==
  Run(p, [op |-> "readGraph", pagination |-> pagination, filter |-> filterOptions],
      readGraph(loaded(p).graph, pagination, filterOptions, loaded(p).u), atomic)

GetGraphStats(p, atomic) ==
  Run(p, [op |-> "getGraphStats"], getGraphStats(loaded(p).graph, loaded(p).u), atomic)

\* loadGraph alone, on a file of lines of text.
LoadGraph(p) ==
  /\ pc[p] = "idle"
  /\ pc' = [pc EXCEPT ![p] = "done"]
  /\ call' = [call EXCEPT ![p] = [op |-> "loadGraph"]]
  /\ before' = [before EXCEPT ![p] = file]
  /\ result' = [result EXCEPT ![p] =
                  [value |-> loadText(file.lines, clock, nextUuid).graph, error |-> FALSE]]
  /\ nextUuid' = loadText(file.lines, clock, nextUuid).u
  /\ UNCHANGED <<file, clock, data, log, fault, setup>>

\* saveGraph(graph), then loadGraph, then saveGraph of the graph loaded: the
\* result holds the graph loaded and the lines of the second save.
RoundTrip(p, graph) ==
  /\ pc[p] = "idle"
  /\ pc' = [pc EXCEPT ![p] = "done"]
  /\ call' = [call EXCEPT ![p] = [op |-> "roundTrip", graph |-> graph]]
  /\ before' = [before EXCEPT ![p] = [exists |-> TRUE, lines |-> saveText(graph)]]
  /\ data' = [data EXCEPT ![p] = saveText(graph)]
  /\ LET back == loadText(saveText(graph), clock, nextUuid)
     IN  /\ result' = [result EXCEPT ![p] =
                         [value |-> [graph |-> back.graph, lines |-> saveText(back.graph)],
                          error |-> FALSE]]
         /\ nextUuid' = back.u
         /\ file' = [exists |-> TRUE, lines |-> saveText(back.graph)]
  /\ UNCHANGED <<clock, log, fault, setup>>

\* The caller takes the result of its call (the promise settles); it may then
\* call again.
Return(p) ==
  /\ pc[p] = "done"
  /\ pc' = [pc EXCEPT ![p] = "idle"]
  /\ call' = [call EXCEPT ![p] = NoCall]
  /\ before' = [before EXCEPT ![p] = [exists |-> FALSE, lines |-> <<>>]]
  /\ result' = [result EXCEPT ![p] = NoResult]
  /\ data' = [data EXCEPT ![p] = <<>>]
  /\ UNCHANGED <<file, clock, nextUuid, log, fault, setup>>

\* Caller q repeats the addObservations call that caller p has just completed
\* without an error: two successive calls with the same arguments.
Again(p, q) ==
  /\ pc[p] = "done"
  /\ call[p].op = "addObservations"
  /\ ~result[p].error
  /\ pc[q] = "idle"
  /\ Run(q, call[p], addObservations(loaded(q).graph, call[p].observations, clock, loaded(q).u),
         TRUE)

\* getRelatedNodes, one iteration of its while loop at a time.  While the loop
\* runs (pc "looping"), result holds its variables, and entered, the names put
\* on nodesToProcess so far, in order.
GetRelatedNodesBegin(p, startingNodeName, depth) ==
  /\ pc[p] = "idle"
  /\ ~loaded(p).error
  /\ pc' = [pc EXCEPT ![p] = "looping"]
  /\ call' = [call EXCEPT ![p] = [op |-> "getRelatedNodes",
                                  startingNodeName |-> startingNodeName, depth |-> depth]]
  /\ before' = [before EXCEPT ![p] = file]
  /\ result' = [result EXCEPT ![p] =
                  [value |-> [currentDepth |-> 0,
                              nodesToProcess |-> <<startingNodeName>>,
                              relatedEntityNames |-> {startingNodeName},
                              entered |-> <<startingNodeName>>],
                   error |-> FALSE]]
  /\ nextUuid' = loaded(p).u
  /\ UNCHANGED <<file, clock, data, log, fault, setup>>

\* "currentDepth < depth && nodesToProcess.length > 0" for the loop of caller p.
WhileCondition(p) ==
  /\ result[p].value.currentDepth < call[p].depth
  /\ Len(result[p].value.nodesToProcess) > 0

\* One iteration of the while loop.
WhileBody(p) ==
  /\ pc[p] = "looping"
  /\ WhileCondition(p)
  /\ result[p].value.currentDepth < MaxLevels
  /\ LET v == result[p].value
         relations == loadGraph(before[p], "none", clock, nextUuid).graph.relations
         st == visitNodes([relatedEntityNames |-> v.relatedEntityNames, nextLevelNodes |-> <<>>],
                          v.nodesToProcess, relations)
     IN  result' = [result EXCEPT ![p].value =
                      [currentDepth |-> v.currentDepth + 1,
                       nodesToProcess |-> st.nextLevelNodes,
                       relatedEntityNames |-> st.relatedEntityNames,
                       entered |-> v.entered \o st.nextLevelNodes]]
  /\ UNCHANGED <<file, clock, nextUuid, pc, call, before, data, log, fault, setup>>

\* The loop has ended: the entities and relations are filtered and returned.
GetRelatedNodesReturn(p) ==
  /\ pc[p] = "looping"
  /\ ~WhileCondition(p)
  /\ pc' = [pc EXCEPT ![p] = "done"]
  /\ LET graph == loadGraph(before[p], "none", clock, nextUuid).graph
         relatedEntityNames == result[p].value.relatedEntityNames
     IN  result' = [result EXCEPT ![p].value =
                      [entries |-> filter(graph.entries, LAMBDA e : e.name \in relatedEntityNames),
                       relations |-> filter(graph.relations,
                                            LAMBDA r : r.from \in relatedEntityNames
                                                       /\ r.to \in relatedEntityNames)]]
  /\ UNCHANGED <<file, clock, nextUuid, call, before, data, log, fault, setup>>

\* setMemoryFilePath that stores the path before it tests it.
setMemoryFilePath_assignFirst(current, filePath) ==
  [memoryFilePath |-> filePath, error |-> filePath = ""]

\* setMemoryFilePath: throws on an empty path, before the assignment; yields the
\* field afterwards and whether it threw.
setMemoryFilePath(current, filePath) ==
  IF filePath = "" THEN [memoryFilePath |-> current, error |-> TRUE]
  ELSE [memoryFilePath |-> filePath, error |-> FALSE]

SetMemoryFilePath(p, filePath) ==
  /\ pc[p] = "idle"
  /\ knowledgeGraphManager
  /\ pc' = [pc EXCEPT ![p] = "done"]
  /\ call' = [call EXCEPT ![p] = [op |-> "setMemoryFilePath", filePath |-> filePath]]
  /\ result' = [result EXCEPT ![p] =
                  [value |-> IF setMemoryFilePath(memoryFilePath, filePath).error
                             THEN "Memory file path cannot be empty" ELSE "void",
                   error |-> setMemoryFilePath(memoryFilePath, filePath).error]]
  /\ memoryFilePath' = setMemoryFilePath(memoryFilePath, filePath).memoryFilePath
  /\ log' = Append(log, [event |-> "setMemoryFilePath", by |-> p, filePath |-> filePath])
  /\ UNCHANGED <<file, clock, nextUuid, before, data, fault,
                 knowledgeGraphManager, config, configFile>>

\* utils/config: path.isAbsolute and path.resolve(process.cwd(), p) with the
\* working directory /cwd.
isAbsolute(p) == Len(p) > 0 /\ SubSeq(p, 1, 1) = "/"

resolve(p) == "/cwd/" \o p

\* config.load(): yields the config variable afterwards and whether load threw.
\* A missing config file gives the default configuration; any other error of
\* reading or parsing leaves config as it is; a config whose memoryFilePath is
\* empty is assigned before validateConfig throws.
load(current, f) ==
  IF f.code = "ENOENT"
  THEN [config |-> [loaded |-> TRUE, memoryFilePath |-> DefaultPath], error |-> FALSE]
  ELSE IF f.code # "none" THEN [config |-> current, error |-> TRUE]
  ELSE IF f.memoryFilePath = ""
  THEN [config |-> [loaded |-> TRUE, memoryFilePath |-> ""], error |-> TRUE]
  ELSE [config |-> [loaded |-> TRUE,
                    memoryFilePath |-> IF isAbsolute(f.memoryFilePath) THEN f.memoryFilePath
                                       ELSE resolve(f.memoryFilePath)],
        error |-> FALSE]

\* The server's handlers.  The log lists the initialize requests received
\* ("initialize"), their completions ("initialized", with ok when the handler
\* returned) and the tool calls rejected for want of a manager ("rejected").
NotInitialized == "Knowledge graph manager is not initialized"

\* The initialize handler that constructs the manager before it awaits
\* config.load().
InitializeBegin_managerFirst(p) ==
  /\ pc[p] = "idle"
  /\ pc' = [pc EXCEPT ![p] = "loading"]
  /\ call' = [call EXCEPT ![p] = [op |-> "initialize"]]
  /\ log' = Append(log, [event |-> "initialize", by |-> p])
  /\ knowledgeGraphManager' = TRUE
  /\ memoryFilePath' = Null
  /\ UNCHANGED <<file, clock, nextUuid, before, result, data, fault, config, configFile>>

\* The initialize handler up to "await config.load()", where load awaits
\* fs.readFile.
InitializeBegin(p) ==
  /\ pc[p] = "idle"
  /\ pc' = [pc EXCEPT ![p] = "loading"]
  /\ call' = [call EXCEPT ![p] = [op |-> "initialize"]]
  /\ log' = Append(log, [event |-> "initialize", by |-> p])
  /\ UNCHANGED <<file, clock, nextUuid, before, result, data, fault, setup>>

\* The rest of config.load() and of the handler: when load returns, a new
\* manager (memoryFilePath null) is assigned and given config.get('memoryFilePath').
InitializeEnd(p) ==
  /\ pc[p] = "loading"
  /\ pc' = [pc EXCEPT ![p] = "done"]
  /\ LET l == load(config, configFile)
         s == setMemoryFilePath(Null, l.config.memoryFilePath)
         ok == ~l.error /\ ~s.error
     IN  /\ config' = l.config
         /\ knowledgeGraphManager' = (knowledgeGraphManager \/ ~l.error)
         /\ memoryFilePath' = IF l.error THEN memoryFilePath ELSE s.memoryFilePath
         /\ result' = [result EXCEPT ![p] =
                         [value |-> IF ok THEN "mcp-memory" ELSE "Error during initialization",
                          error |-> ~ok]]
         /\ log' = Append(log, [event |-> "initialized", by |-> p, ok |-> ok])
  /\ UNCHANGED <<file, clock, nextUuid, call, before, data, fault, configFile>>

\* The errors the tool-call handler throws by itself once there is a manager.
ToolErrors == {"Unknown tool", "Missing or invalid argument"}

\* The tool-call handler: without a manager it throws; otherwise it calls the
\* manager's operation for the tool named, and throws for another name or for
\* arguments of the wrong kind.
CallTool(p) ==
  IF ~knowledgeGraphManager
  THEN /\ pc[p] = "idle"
       /\ Len(log) < MaxRequests
       /\ pc' = [pc EXCEPT ![p] = "done"]
       /\ call' = [call EXCEPT ![p] = [op |-> "callTool"]]
       /\ result' = [result EXCEPT ![p] = [value |-> NotInitialized, error |-> TRUE]]
       /\ log' = Append(log, [event |-> "rejected", by |-> p])
       /\ UNCHANGED <<file, clock, nextUuid, before, data, fault, setup>>
  ELSE \/ \E entities \in SeqUpTo([name : {"A"}, entityType : EntityTypes, observations : {<<>>}], 1) :
            CreateEntities(p, entities, TRUE)
       \/ \E relations \in SeqUpTo([from : {"A"}, to : {"A"}, relationType : RelationTypes], 1) :
            CreateRelations(p, relations, TRUE)
       \/ SearchNodes(p, "a", [offset |-> 0, limit |-> 20], TRUE)
       \/ GetRelatedNodes(p, "A", 1, TRUE)
       \/ GetGraphStats(p, TRUE)
       \/ /\ pc[p] = "idle"
          /\ pc' = [pc EXCEPT ![p] = "done"]
          /\ call' = [call EXCEPT ![p] = [op |-> "callTool"]]
          /\ \E message \in ToolErrors :
               result' = [result EXCEPT ![p] = [value |-> message, error |-> TRUE]]
          /\ UNCHANGED <<file, clock, nextUuid, before, data, log, fault, setup>>

\* A client that reads page after page: its call c carries, besides the
\* arguments of searchNodes or readGraph, the items of the pages it has got so
\* far (seen).  PagedOutcome is the outcome of its call c; FirstPage is the call
\* for the page at offset 0; NextPage, taken while the last response has
\* hasMore, is the same call with offset set to the nextOffset returned.
PagedOutcome(p, c) ==
  IF c.op = "searchNodes"
  THEN searchNodes(loaded(p).graph, c.query, c.pagination, loaded(p).u)
  ELSE readGraph(loaded(p).graph, c.pagination, c.filter, loaded(p).u)

FirstPage(p, c) == Run(p, [c EXCEPT !.pagination.offset = 0, !.seen = EmptyGraph],
                       PagedOutcome(p, [c EXCEPT !.pagination.offset = 0]), TRUE)

NextPage(p) ==
  /\ pc[p] = "done"
  /\ call[p].op \in {"searchNodes", "readGraph"}
  /\ ~result[p].error
  /\ result[p].value.hasMore
  /\ result[p].value.nextOffset # {}
  /\ LET c == [call[p] EXCEPT
                 !.pagination.offset = CHOOSE n \in result[p].value.nextOffset : TRUE,
                 !.seen = [entries |-> @.entries \o result[p].value.items.entries,
                           relations |-> @.relations \o result[p].value.items.relations]]
         out == PagedOutcome(p, c)
     IN  /\ call' = [call EXCEPT ![p] = c]
         /\ result' = [result EXCEPT ![p] = [value |-> out.result, error |-> out.error]]
         /\ nextUuid' = out.u
  /\ before' = [before EXCEPT ![p] = file]
  /\ UNCHANGED <<file, clock, pc, data, log, fault, setup>>

\* No caller has a call in progress or a result not yet taken.
Quiet == \A q \in Procs : pc[q] = "idle"

\* getCurrentTimestamp() is non-decreasing and may return the same value twice.
Tick ==
  /\ clock < MaxClock
  /\ clock' = clock + 1
  /\ UNCHANGED <<file, nextUuid, pc, call, before, result, data, log, fault, setup>>

\* The operations, with their arguments drawn from the names N and the
\* observation lists L.
Call(p, N, L, atomic) ==
  \/ \E entities \in SeqUpTo([name : N, entityType : EntityTypes, observations : L], MaxBatch) :
       CreateEntities(p, entities, atomic)
  \/ \E relations \in SeqUpTo([from : N, to : N, relationType : RelationTypes], MaxBatch) :
       CreateRelations(p, relations, atomic)
  \/ \E observations \in SeqUpTo([entityName : N, contents : L], MaxBatch) :
       AddObservations(p, observations, atomic)
  \/ \E entityNames \in SeqUpTo(N, MaxBatch) : DeleteEntities(p, entityNames, atomic)
  \/ \E deletions \in SeqUpTo([entityName : N, observations : L], MaxBatch) :
       DeleteObservations(p, deletions, atomic)
  \/ \E relations \in SeqUpTo([from : N, to : N, relationType : RelationTypes], MaxBatch) :
       DeleteRelations(p, relations, atomic)
  \/ \E startingNodeName \in N, depth \in 0..MaxDepth :
       GetRelatedNodes(p, startingNodeName, depth, atomic)
  \/ GetGraphStats(p, atomic)
  \/ ReadGraph(p, [offset |-> 0, limit |-> 1000], NoFilter, atomic)

\* ----------------------------------------------------------- specifications
\* Spec: any sequence of non-overlapping calls by one caller, starting from an
\* empty (or not yet created) backing file.
Next ==
  \/ Quiet /\ Call(Main, {"A", "B"}, {<<>>, <<"o1">>, <<"o1", "o1">>}, TRUE)
           /\ nextUuid' <= MaxUuid + 1
  \/ Again(Main, 2)
  \/ \E p \in Procs : Return(p)
  \/ Tick

Spec == Init /\ [][Next]_vars

\* The file after createEntities(es) and then createRelations(rs) on an empty
\* file at time 1: a file the program writes.
storedLines(es, rs) ==
  LET g1 == createEntities(EmptyGraph, es, 1, 1)
      g2 == createRelations(g1.graph, rs, 1, g1.u)
  IN  saveLines(g2.graph)

StoredEntityInputs == [name : Names, entityType : EntityTypes, observations : {<<"o1">>}]

InitFrom(entityBatches, relationBatches, clocks) ==
  /\ \E es \in entityBatches, rs \in relationBatches :
       /\ file = [exists |-> TRUE, lines |-> storedLines(es, rs)]
       /\ nextUuid = 1 + Len(es) + Len(rs)
  /\ clock \in clocks
  /\ pc = [p \in Procs |-> "idle"]
  /\ call = [p \in Procs |-> NoCall]
  /\ before = [p \in Procs |-> [exists |-> FALSE, lines |-> <<>>]]
  /\ result = [p \in Procs |-> NoResult]
  /\ data = [p \in Procs |-> <<>>]
  /\ log = <<>>
  /\ Configured
  /\ fault = "none"

\* SpecStored: one call (and possibly its repetition) on a file that holds up to
\* MaxStored entities and up to one relation.
InitStored ==
  InitFrom(SeqUpTo(StoredEntityInputs, MaxStored), SeqUpTo(RelationInputs, 1), 1..MaxClock)

NextStored ==
  \/ Quiet /\ Call(Main, Names, ObsLists, TRUE)
  \/ Again(Main, 2)

SpecStored == InitStored /\ [][NextStored]_vars

\* SpecTraversal: one getRelatedNodes call on a file that holds up to two of the
\* entities A, B, C and up to MaxChain relations between any of the three names.
TraversalEntityBatches ==
  {[i \in 1..Len(ns) |-> [name |-> ns[i], entityType |-> "person", observations |-> <<"o1">>]] :
     ns \in {<<>>, <<"A">>, <<"B">>, <<"C">>, <<"A", "B">>, <<"B", "C">>, <<"C", "A">>}}

InitTraversal == InitFrom(TraversalEntityBatches, SeqUpTo(RelationInputs, MaxChain), {1})

NextTraversal ==
  \E startingNodeName \in Names, depth \in 0..MaxDepth :
    Quiet /\ GetRelatedNodes(Main, startingNodeName, depth, TRUE)

SpecTraversal == InitTraversal /\ [][NextTraversal]_vars

\* SpecSearch: one searchNodes call on a file that holds some of the entities
\* A, B, C, each as a person with observations or as a robot without, and up to
\* MaxBatch of the relations A -> B, B -> C, C -> A and A -> A.
SearchNames == <<"A", "B", "C">>
SearchKinds ==
  {[stored |-> FALSE, entityType |-> "person", observations |-> <<>>],
   [stored |-> TRUE, entityType |-> "person", observations |-> <<"blue">>],
   [stored |-> TRUE, entityType |-> "person", observations |-> <<"blue", "Red">>],
   [stored |-> TRUE, entityType |-> "Robot", observations |-> <<>>]}

SearchEntityBatches ==
  {LET chosen == SelectSeq([i \in 1..Len(SearchNames) |-> [at |-> i, kind |-> kinds[i]]],
                           LAMBDA c : c.kind.stored)
   IN  [i \in 1..Len(chosen) |->
          [name |-> SearchNames[chosen[i].at], entityType |-> chosen[i].kind.entityType,
           observations |-> chosen[i].kind.observations]] :
     kinds \in [1..Len(SearchNames) -> SearchKinds]}

SearchRelationInputs ==
  {[from |-> "A", to |-> "B", relationType |-> "knows"],
   [from |-> "B", to |-> "C", relationType |-> "knows"],
   [from |-> "C", to |-> "A", relationType |-> "knows"],
   [from |-> "A", to |-> "A", relationType |-> "knows"]}

Queries == {"", "a", "RED", "ro", "KNOW", "x"}
DefaultPagination == [offset |-> 0, limit |-> 20]
Paginations == {DefaultPagination, [offset |-> 1, limit |-> 1]}

InitSearch == InitFrom(SearchEntityBatches, SeqUpTo(SearchRelationInputs, MaxBatch), {1})

NextSearch ==
  \E query \in Queries, pagination \in Paginations :
    Quiet /\ SearchNodes(Main, query, pagination, TRUE)

SpecSearch == InitSearch /\ [][NextSearch]_vars

\* SpecFormat: loadGraph on a file of up to MaxLines lines, each a line the
\* program wrote, a legacy line without uuid and timestamps, a line with an
\* unknown tag or none, text that is not JSON, or a blank line.
BaseFields(uuid) == <<<<"uuid", uuid>>, <<"createdAt", 1>>, <<"updatedAt", 1>>>>

EntityFields(name) ==
  {<<<<"name", name>>, <<"entityType", "person">>, <<"observations", <<"o1">>>>>>,
   <<<<"observations", <<>>>>, <<"name", name>>, <<"entityType", "person">>>>}

Tags(type) == {<<>>, <<<<"type", type>>>>}

\* An entity a graph in memory holds: created (not tagged, uuid and timestamps
\* last) or loaded (tagged, uuid and timestamps where the line had them).
EntityObjects(name, uuid) ==
  {tag \o fields \o BaseFields(uuid) : tag \in Tags("entity"), fields \in EntityFields(name)}
  \cup {<<<<"type", "entity">>>> \o BaseFields(uuid) \o fields : fields \in EntityFields(name)}

RelationFields == <<<<"from", "A">>, <<"to", "B">>, <<"relationType", "knows">>>>

FormatLines ==
  {stringify(<<<<"type", "entity">>>> \o fields \o BaseFields(1)) : fields \in EntityFields("A")}
  \cup {stringify(<<<<"type", "entity">>>> \o fields) : fields \in EntityFields("B")}
  \cup {stringify(<<<<"type", "relation">>>> \o RelationFields \o BaseFields(2)),
        stringify(<<<<"type", "note">>, <<"name", "C">>>>),
        stringify(<<<<"name", "C">>, <<"entityType", "person">>, <<"observations", <<>>>>>>),
        [kind |-> "text"],
        [kind |-> "null"],
        [kind |-> "blank"]}

FormatEntries ==
  {<<>>}
  \cup {<<e>> : e \in EntityObjects("A", 1) \cup EntityObjects("B", 1)}
  \cup {<<a, b>> : a \in EntityObjects("A", 1), b \in EntityObjects("B", 2)}
  \cup {<<b, a>> : a \in EntityObjects("A", 2), b \in EntityObjects("B", 1)}

FormatGraphs ==
  {[entries |-> es, relations |-> rs] :
     es \in FormatEntries,
     rs \in {<<>>} \cup {<<tag \o RelationFields \o BaseFields(3)>> : tag \in Tags("relation")}}

InitFormat ==
  /\ file \in {[exists |-> TRUE, lines |-> lines] : lines \in SeqUpTo(FormatLines, MaxLines)}
  /\ clock = MaxClock
  /\ nextUuid = 4
  /\ pc = [p \in Procs |-> "idle"]
  /\ call = [p \in Procs |-> NoCall]
  /\ before = [p \in Procs |-> [exists |-> FALSE, lines |-> <<>>]]
  /\ result = [p \in Procs |-> NoResult]
  /\ data = [p \in Procs |-> <<>>]
  /\ log = <<>>
  /\ Configured
  /\ fault = "none"

NextFormat == Quiet /\ LoadGraph(Main)

SpecFormat == InitFormat /\ [][NextFormat]_vars

\* SpecRoundTrip: the round trip of a graph the program can hold in memory.
NextRoundTrip == \E graph \in FormatGraphs : Quiet /\ RoundTrip(Main, graph)

SpecRoundTrip == Init /\ [][NextRoundTrip]_vars

\* SpecMissing: one call of any operation when the backing file does not exist
\* or holds one entity, and fs.readFile works or fails with EACCES.
InitMissing ==
  /\ file \in {[exists |-> FALSE, lines |-> <<>>],
                [exists |-> TRUE,
                 lines |-> storedLines(<<[name |-> "A", entityType |-> "person",
                                          observations |-> <<"o1">>]>>, <<>>)]}
  /\ fault \in {"none", "EACCES"}
  /\ clock \in 1..MaxClock
  /\ nextUuid = 1 + Len(file.lines)
  /\ pc = [p \in Procs |-> "idle"]
  /\ call = [p \in Procs |-> NoCall]
  /\ before = [p \in Procs |-> [exists |-> FALSE, lines |-> <<>>]]
  /\ result = [p \in Procs |-> NoResult]
  /\ data = [p \in Procs |-> <<>>]
  /\ log = <<>>
  /\ Configured

NextMissing ==
  \/ Quiet /\ Call(Main, Names, ObsLists, TRUE)
  \/ \E query \in Queries, pagination \in Paginations :
       Quiet /\ SearchNodes(Main, query, pagination, TRUE)

SpecMissing == InitMissing /\ [][NextMissing]_vars

\* SpecDeleteRelations: one deleteRelations call on a file that holds up to two
\* entities and up to MaxBatch relations between A and B.
InitDeleteRelations ==
  InitFrom(SeqUpTo([name : {"A"}, entityType : EntityTypes, observations : {<<"o1">>}], 2),
           SeqUpTo([from : {"A", "B"}, to : {"A", "B"}, relationType : RelationTypes], MaxBatch),
           {1})

NextDeleteRelations ==
  \E relations \in SeqUpTo([from : {"A", "B"}, to : {"A", "B"},
                              relationType : DeletedRelationTypes], MaxBatch) :
    Quiet /\ DeleteRelations(Main, relations, TRUE)

SpecDeleteRelations == InitDeleteRelations /\ [][NextDeleteRelations]_vars

\* SpecObservations: one addObservations or deleteObservations call at time
\* MaxClock on a file written at time 1 that holds no entity, an entity A, or
\* an entity A and then an entity B or a second entity named A (as
\* createEntities stores a batch that repeats a name), each with no, one or two
\* observations.
StoredObsLists == {<<>>, <<"o1">>, <<"o2", "o1">>}
CalledObsLists == {<<>>, <<"o1", "o3">>, <<"o3", "o3">>}

StoredObsBatches ==
  LET first == [name : {"A"}, entityType : EntityTypes, observations : StoredObsLists]
      second == [name : {"A", "B"}, entityType : EntityTypes, observations : StoredObsLists]
  IN  {<<>>} \cup {<<a>> : a \in first} \cup {<<a, b>> : a \in first, b \in second}

InitObservations == InitFrom(StoredObsBatches, {<<>>}, {MaxClock})

NextObservations ==
  \/ \E observations \in SeqUpTo([entityName : Names, contents : CalledObsLists], MaxBatch) :
       Quiet /\ AddObservations(Main, observations, TRUE)
  \/ \E deletions \in SeqUpTo([entityName : Names, observations : CalledObsLists], MaxBatch) :
       Quiet /\ DeleteObservations(Main, deletions, TRUE)

SpecObservations == InitObservations /\ [][NextObservations]_vars

\* SpecLegacy: one call of any operation on a file that was not all written by
\* this program: an entity A, then possibly an entity B, then possibly a
\* relation A -> B, each line either as saveGraph writes it (at time 1), or a
\* legacy line without uuid, createdAt and updatedAt, or a line that lacks only
\* createdAt or only updatedAt.
LegacyKinds ==
  {[uuid |-> TRUE, createdAt |-> 1, updatedAt |-> 1],
   [uuid |-> FALSE, createdAt |-> 0, updatedAt |-> 0],
   [uuid |-> TRUE, createdAt |-> 0, updatedAt |-> 1],
   [uuid |-> TRUE, createdAt |-> 1, updatedAt |-> 0]}

LegacyEntity(name, kind, uuid) ==
  [type |-> "entity", uuid |-> IF kind.uuid THEN uuid ELSE 0,
   createdAt |-> kind.createdAt, updatedAt |-> kind.updatedAt,
   name |-> name, entityType |-> "person", observations |-> <<"o1">>]

LegacyRelation(kind, uuid) ==
  [type |-> "relation", uuid |-> IF kind.uuid THEN uuid ELSE 0,
   createdAt |-> kind.createdAt, updatedAt |-> kind.updatedAt,
   from |-> "A", to |-> "B", relationType |-> "knows"]

LegacyFiles ==
  {<<>>}
  \cup {<<LegacyEntity("A", a, 1)>> \o bs \o rs :
          a \in LegacyKinds,
          bs \in {<<>>} \cup {<<LegacyEntity("B", b, 2)>> : b \in LegacyKinds},
          rs \in {<<>>} \cup {<<LegacyRelation(r, 3)>> : r \in LegacyKinds}}

InitLegacy ==
  /\ file \in {[exists |-> TRUE, lines |-> lines] : lines \in LegacyFiles}
  /\ clock \in 1..MaxClock
  /\ nextUuid = 4
  /\ pc = [p \in Procs |-> "idle"]
  /\ call = [p \in Procs |-> NoCall]
  /\ before = [p \in Procs |-> [exists |-> FALSE, lines |-> <<>>]]
  /\ result = [p \in Procs |-> NoResult]
  /\ data = [p \in Procs |-> <<>>]
  /\ log = <<>>
  /\ Configured
  /\ fault = "none"

NextLegacy ==
  \/ Quiet /\ Call(Main, {"A", "B"}, {<<>>, <<"o2">>}, TRUE)
  \/ \E query \in {"a", "x"} : Quiet /\ SearchNodes(Main, query, DefaultPagination, TRUE)

SpecLegacy == InitLegacy /\ [][NextLegacy]_vars

\* SpecRead: one readGraph call, with a page and a filter, on a file that holds
\* some of three entities and some of three relations, updated at time 1 or 2.
ReadEntities ==
  <<[type |-> "entity", uuid |-> 1, createdAt |-> 1, updatedAt |-> 1,
     name |-> "A", entityType |-> "person", observations |-> <<"red">>],
    [type |-> "entity", uuid |-> 2, createdAt |-> 1, updatedAt |-> 2,
     name |-> "B", entityType |-> "Robot", observations |-> <<>>],
    [type |-> "entity", uuid |-> 3, createdAt |-> 1, updatedAt |-> 2,
     name |-> "C", entityType |-> "person", observations |-> <<"red", "blue">>]>>

ReadRelations ==
  <<[type |-> "relation", uuid |-> 4, createdAt |-> 1, updatedAt |-> 1,
     from |-> "A", to |-> "B", relationType |-> "knows"],
    [type |-> "relation", uuid |-> 5, createdAt |-> 1, updatedAt |-> 2,
     from |-> "B", to |-> "C", relationType |-> "likes"],
    [type |-> "relation", uuid |-> 6, createdAt |-> 1, updatedAt |-> 2,
     from |-> "C", to |-> "A", relationType |-> "knows"]>>

\* The subsequences of a sequence of three.
Some(seq) == {SelectSeq(seq, LAMBDA x : \E i \in 1..3 : chosen[i] /\ seq[i] = x) :
                chosen \in [1..3 -> BOOLEAN]}

ReadFilters ==
  [entityTypes : {<<>>, <<"person">>, <<"Robot", "alien">>},
   relationTypes : {<<>>, <<"knows">>},
   searchText : {"", "RO", "b"},
   fromDate : {0, 2},
   toDate : {0, 1}]

ReadPaginations ==
  {[offset |-> 0, limit |-> 1000]}
  \cup [offset : 0..MaxPage, limit : 1..MaxPage]

InitRead ==
  /\ file \in {[exists |-> TRUE, lines |-> es \o rs] : es \in Some(ReadEntities),
                                                      rs \in Some(ReadRelations)}
  /\ clock = MaxClock
  /\ nextUuid = 7
  /\ pc = [p \in Procs |-> "idle"]
  /\ call = [p \in Procs |-> NoCall]
  /\ before = [p \in Procs |-> [exists |-> FALSE, lines |-> <<>>]]
  /\ result = [p \in Procs |-> NoResult]
  /\ data = [p \in Procs |-> <<>>]
  /\ log = <<>>
  /\ Configured
  /\ fault = "none"

NextRead ==
  \E pagination \in ReadPaginations, filterOptions \in ReadFilters :
    Quiet /\ ReadGraph(Main, pagination, filterOptions, TRUE)

SpecRead == InitRead /\ [][NextRead]_vars

\* SpecManagers: two managers on the same backing file, their calls never
\* overlapping.  Main makes any sequence of queries and createEntities calls;
\* the second manager makes queries only.  The file starts with an entity A, as
\* saveGraph writes it or as a legacy line, and possibly a relation A -> B.
ManagerFiles ==
  {<<>>}
  \cup {<<LegacyEntity("A", a, 1)>> \o rs :
          a \in {k \in LegacyKinds : k.createdAt = k.updatedAt},
          rs \in {<<>>, <<LegacyRelation([uuid |-> TRUE, createdAt |-> 1, updatedAt |-> 1], 3)>>}}

InitManagers ==
  /\ file \in {[exists |-> TRUE, lines |-> lines] : lines \in ManagerFiles}
  /\ clock = 1
  /\ nextUuid = 4
  /\ pc = [p \in Procs |-> "idle"]
  /\ call = [p \in Procs |-> NoCall]
  /\ before = [p \in Procs |-> [exists |-> FALSE, lines |-> <<>>]]
  /\ result = [p \in Procs |-> NoResult]
  /\ data = [p \in Procs |-> <<>>]
  /\ log = <<>>
  /\ Configured
  /\ fault = "none"

Query(p) ==
  \/ ReadGraph(p, [offset |-> 0, limit |-> 1000], NoFilter, TRUE)
  \/ SearchNodes(p, "a", DefaultPagination, TRUE)
  \/ GetRelatedNodes(p, "A", 1, TRUE)
  \/ GetGraphStats(p, TRUE)

NextManagers ==
  \/ \E p \in Procs : Query(p) /\ nextUuid' <= 4 + 2 * MaxUuid
  \/ /\ CreateEntities(Main, <<[name |-> "B", entityType |-> "person", observations |-> <<>>]>>,
                       TRUE)
     /\ nextUuid' <= 4 + 2 * MaxUuid
  \/ \E p \in Procs : Return(p)
  \/ Tick

SpecManagers == InitManagers /\ [][NextManagers]_vars

\* SpecLoop: from an empty file, one createRelations call stores up to MaxChain
\* relations between any of the three names (the batches list the relations in
\* one order of the pairs of names), and getRelatedNodes calls follow, their
\* loop run one iteration at a time.  Infinity stands for the depth Infinity (a
\* JSON number such as 1e999 parses to it): currentDepth stays below it.  The
\* loop runs to its end once started (weak fairness): nothing in it awaits.
Infinity == 1000000

LoopDepths == 0..MaxDepth \cup {Infinity}

LoopPair(k) ==
  [from |-> SearchNames[((k - 1) \div 3) + 1], to |-> SearchNames[((k - 1) % 3) + 1],
   relationType |-> "knows"]

LoopBatches ==
  UNION {{[i \in 1..n |-> LoopPair(pairs[i])] :
            pairs \in {ks \in [1..n -> 1..9] : \A i \in 1..(n - 1) : ks[i] <= ks[i + 1]}} :
           n \in 0..MaxChain}

NextLoop ==
  \/ \E relations \in LoopBatches : Quiet /\ nextUuid = 1 /\ CreateRelations(Main, relations, TRUE)
  \/ Return(Main)
  \/ \E depth \in LoopDepths : Quiet /\ GetRelatedNodesBegin(Main, "A", depth)
  \/ WhileBody(Main)
  \/ GetRelatedNodesReturn(Main)

SpecLoop ==
  /\ Init
  /\ [][NextLoop]_vars
  /\ WF_vars(WhileBody(Main))
  /\ WF_vars(GetRelatedNodesReturn(Main))

\* SpecPages: on each file of SpecRead, which no call changes, a client reads
\* the matches of a searchNodes query or of a readGraph filter page by page,
\* with a limit of 1..MaxPage.  The client goes on while hasMore is true (weak
\* fairness of NextPage).
PageCalls ==
  [op : {"searchNodes"}, query : {"", "kn", "RED"}, pagination : [offset : {0}, limit : 1..MaxPage],
   seen : {EmptyGraph}]
  \cup [op : {"readGraph"}, filter : {NoFilter, [NoFilter EXCEPT !.entityTypes = <<"person">>]},
        pagination : [offset : {0}, limit : 1..MaxPage], seen : {EmptyGraph}]

NextPages ==
  \/ \E c \in PageCalls : Quiet /\ FirstPage(Main, c)
  \/ NextPage(Main)

SpecPages == InitRead /\ [][NextPages]_vars /\ WF_vars(NextPage(Main))

\* SpecPath: a manager as its constructor leaves it (memoryFilePath null), on
\* which one caller calls the graph operations and another setMemoryFilePath,
\* with an empty path or with a path, up to MaxSets times, in any order; the
\* backing file is missing or holds entity A.  The log lists the
\* setMemoryFilePath calls.
InitPath ==
  /\ file \in {[exists |-> FALSE, lines |-> <<>>],
                [exists |-> TRUE,
                 lines |-> storedLines(<<[name |-> "A", entityType |-> "person",
                                          observations |-> <<"o1">>]>>, <<>>)]}
  /\ fault = "none"
  /\ clock = 1
  /\ nextUuid = 1 + Len(file.lines)
  /\ pc = [p \in Procs |-> "idle"]
  /\ call = [p \in Procs |-> NoCall]
  /\ before = [p \in Procs |-> [exists |-> FALSE, lines |-> <<>>]]
  /\ result = [p \in Procs |-> NoResult]
  /\ data = [p \in Procs |-> <<>>]
  /\ log = <<>>
  /\ memoryFilePath = Null
  /\ knowledgeGraphManager = TRUE
  /\ config = [loaded |-> FALSE, memoryFilePath |-> Null]
  /\ configFile = [code |-> "ENOENT", memoryFilePath |-> ""]

NextPath ==
  \/ \E filePath \in {"", DefaultPath} : Len(log) < MaxSets /\ SetMemoryFilePath(2, filePath)
  \/ Call(Main, {"A"}, {<<"o2">>}, TRUE) /\ nextUuid' <= MaxUuid + 2
  \/ \E p \in Procs : Return(p)

SpecPath == InitPath /\ [][NextPath]_vars

\* SpecDispatch: the server from its start (no manager, no configuration), with
\* a config file that is missing, unreadable, or gives an empty, a relative or
\* an absolute memoryFilePath, and does not change; two clients send initialize
\* requests and tool calls in any order, a tool call also while config.load()
\* is pending.
ConfigFiles ==
  {[code |-> "ENOENT", memoryFilePath |-> ""], [code |-> "EACCES", memoryFilePath |-> ""]}
  \cup [code : {"none"}, memoryFilePath : {"", "memory.jsonl", "/data/memory.jsonl"}]

InitDispatch ==
  /\ file \in {[exists |-> FALSE, lines |-> <<>>],
                [exists |-> TRUE,
                 lines |-> storedLines(<<[name |-> "A", entityType |-> "person",
                                          observations |-> <<"o1">>]>>, <<>>)]}
  /\ fault = "none"
  /\ clock = 1
  /\ nextUuid = 1 + Len(file.lines)
  /\ pc = [p \in Procs |-> "idle"]
  /\ call = [p \in Procs |-> NoCall]
  /\ before = [p \in Procs |-> [exists |-> FALSE, lines |-> <<>>]]
  /\ result = [p \in Procs |-> NoResult]
  /\ data = [p \in Procs |-> <<>>]
  /\ log = <<>>
  /\ memoryFilePath = Null
  /\ knowledgeGraphManager = FALSE
  /\ config = [loaded |-> FALSE, memoryFilePath |-> Null]
  /\ configFile \in ConfigFiles

NextDispatch ==
  \E p \in Procs :
    \/ Len(log) < MaxRequests /\ InitializeBegin(p)
    \/ InitializeEnd(p)
    \/ CallTool(p)
    \/ Return(p)

SpecDispatch == InitDispatch /\ [][NextDispatch]_vars

\* SpecConc: two callers make one call each, and the calls may overlap: every
\* order of their reads, opens and writes of the file is possible.  The caller
\* whose loadGraph reads the file first is called Main.
InitConc == InitFrom(SeqUpTo(StoredEntityInputs, 1), {<<>>}, {1})

CallConc(p) ==
  \/ \E entities \in SeqUpTo([name : {"A", "B"}, entityType : EntityTypes,
                                observations : {<<"o1">>}], MaxBatch) :
       CreateEntities(p, entities, FALSE)
  \/ \E observations \in SeqUpTo([entityName : {"A", "B"}, contents : {<<"o2">>}], MaxBatch) :
       AddObservations(p, observations, FALSE)
  \/ \E entityNames \in SeqUpTo({"A", "B"}, MaxBatch) : DeleteEntities(p, entityNames, FALSE)
  \/ \E startingNodeName \in {"A", "B"} : GetRelatedNodes(p, startingNodeName, 0, FALSE)

NextConc ==
  \E p \in Procs :
    \/ (p # Main => pc[Main] # "idle") /\ CallConc(p)
    \/ SaveOpen(p)
    \/ SaveWrite(p)

SpecConc == InitConc /\ [][NextConc]_vars

\* ------------------------------------------------------------------ claims
\* The graph the backing file holds now.
stored == loadGraph(file, "none", clock, nextUuid).graph

\* No two positions of seq hold values with the same key.
Unique(seq, key(_)) == \A i, j \in 1..Len(seq) : i # j => key(seq[i]) # key(seq[j])

\* C1: after any sequence of non-overlapping calls starting from an empty
\* backing file, no two stored entities have the same name (a createEntities
\* batch that repeats a name included).
C1_UniqueEntityNames == Unique(stored.entries, LAMBDA e : e.name)

\* C2: after any sequence of non-overlapping calls starting from an empty
\* backing file, no two stored relations have the same (from, to, relationType)
\* (a createRelations batch that repeats a triple included).
C2_UniqueRelationTriples ==
  Unique(stored.relations, LAMBDA r : <<r.from, r.to, r.relationType>>)

\* C8: in every reachable stored graph no entity's observations list holds two
\* equal strings, whatever lists createEntities and addObservations are given.
C8_UniqueObservations ==
  \A i \in 1..Len(stored.entries) : Unique(stored.entries[i].observations, LAMBDA o : o)

\* The set of the elements of a sequence.
Range(seq) == {seq[i] : i \in 1..Len(seq)}

\* Caller p has completed a call of operation o.
Done(p, o) == pc[p] = "done" /\ call[p].op = o

\* A line of the file that deleteEntities(names) has to leave alone.
Untouched(line, names) ==
  IF line.type = "entity" THEN line.name \notin names
  ELSE line.from \notin names /\ line.to \notin names

\* C3: after deleteEntities(names) the file holds no entity named in names and
\* no relation with an end in names, and every other line of the file it loaded
\* is still there, in the same order and with all its fields.
C3_DeleteEntitiesCascades ==
  Done(Main, "deleteEntities") =>
    LET names == Range(call[Main].entityNames)
    IN  /\ \A i \in 1..Len(file.lines) : Untouched(file.lines[i], names)
        /\ file.lines = SelectSeq(before[Main].lines, LAMBDA line : Untouched(line, names))

\* C3 witness: entity A, entity B and relation A -> B are stored and
\* deleteEntities(["A"]) has left exactly entity B.
C3_Witness ==
  /\ Done(Main, "deleteEntities")
  /\ call[Main].entityNames = <<"A">>
  /\ Len(before[Main].lines) = 3
  /\ before[Main].lines[1].name = "A"
  /\ before[Main].lines[2].name = "B"
  /\ before[Main].lines[3].from = "A" /\ before[Main].lines[3].to = "B"
  /\ file.lines = <<before[Main].lines[2]>>

\* The names of the entities in the file a call loaded.
NamesBefore(p) ==
  {before[p].lines[i].name : i \in {j \in 1..Len(before[p].lines) : before[p].lines[j].type = "entity"}}

\* C6: addObservations throws exactly when some pair of its batch names an
\* entity that is not stored; deleteObservations, deleteEntities and
\* deleteRelations never throw, whatever names or triples they are given.
C6_OnlyAddObservationsThrows ==
  /\ Done(Main, "addObservations") =>
       (result[Main].error <=>
          \E i \in 1..Len(call[Main].observations) :
            call[Main].observations[i].entityName \notin NamesBefore(Main))
  /\ pc[Main] = "done"
       /\ call[Main].op \in {"deleteObservations", "deleteEntities", "deleteRelations"}
       => ~result[Main].error

\* C6 witness: addObservations has thrown on a batch whose first pair names a
\* stored entity and whose second pair names a missing one.
C6_Witness ==
  /\ Done(Main, "addObservations")
  /\ result[Main].error
  /\ Len(call[Main].observations) = 2
  /\ call[Main].observations[1].entityName \in NamesBefore(Main)
  /\ call[Main].observations[2].entityName \notin NamesBefore(Main)

\* How often x occurs in seq.
Count(seq, x) == Cardinality({i \in 1..Len(seq) : seq[i] = x})

\* The first entity named name in the lines, as findEntity finds it.
EntityIn(lines, name) ==
  LET es == SelectSeq(lines, LAMBDA line : line.type = "entity")
  IN  es[findEntity(es, name)]

\* C7: when addObservations([{entityName: e, contents: [s]}]) on an existing
\* entity e is made twice in succession, s is exactly once in e's observations
\* afterwards, the second call reports no added observation and leaves e's
\* updatedAt as the first call left it.
C7_SecondAddIsNoOp ==
  (/\ Done(2, "addObservations")
   /\ Len(call[2].observations) = 1
   /\ Len(call[2].observations[1].contents) = 1)
  => LET e == call[2].observations[1].entityName
         s == call[2].observations[1].contents[1]
     IN  /\ Count(EntityIn(file.lines, e).observations, s) = 1
         /\ result[2].value = <<[entityName |-> e, addedObservations |-> <<>>]>>
         /\ EntityIn(file.lines, e).updatedAt = EntityIn(before[2].lines, e).updatedAt

\* Names within d hops of s when every relation is followed in both directions.
RECURSIVE Within(_, _, _)
Within(relations, s, d) ==
  IF d = 0 THEN {s}
  ELSE LET near == Within(relations, s, d - 1)
       IN  near \cup {n \in Names : \E i \in 1..Len(relations) :
                        \/ relations[i].from \in near /\ relations[i].to = n
                        \/ relations[i].to \in near /\ relations[i].from = n}

\* C9: getRelatedNodes(s, d) returns exactly the stored entities whose name is
\* within d hops of s, relations followed in either direction, and exactly the
\* stored relations whose two ends are both within d hops of s, in stored order.
C9_RelatedNodesAreThoseWithinDepth ==
  Done(Main, "getRelatedNodes") =>
    LET near == Within(stored.relations, call[Main].startingNodeName, call[Main].depth)
    IN  /\ result[Main].value.entries = SelectSeq(stored.entries, LAMBDA e : e.name \in near)
        /\ result[Main].value.relations =
             SelectSeq(stored.relations, LAMBDA r : r.from \in near /\ r.to \in near)

\* C9 witness: with entities A and B and the chain A -> B, C -> B stored,
\* getRelatedNodes("A", 1) has returned A, B and the relation A -> B only.
C9_Witness ==
  /\ Done(Main, "getRelatedNodes")
  /\ call[Main].startingNodeName = "A" /\ call[Main].depth = 1
  /\ Len(stored.relations) = 2
  /\ stored.relations[1].from = "A" /\ stored.relations[1].to = "B"
  /\ stored.relations[2].from = "C" /\ stored.relations[2].to = "B"
  /\ Len(result[Main].value.entries) = 2
  /\ result[Main].value.relations = <<stored.relations[1]>>

\* C10 as claimed: getRelatedNodes(s, 0) returns at most the starting node and
\* an empty relations list.
C10_DepthZeroNoRelations ==
  (Done(Main, "getRelatedNodes") /\ call[Main].depth = 0) =>
    /\ \A i \in 1..Len(result[Main].value.entries) :
         result[Main].value.entries[i].name = call[Main].startingNodeName
    /\ result[Main].value.relations = <<>>

\* C10 as amended: getRelatedNodes(s, 0) returns exactly the stored entities
\* named s and exactly the stored relations from s to s; its relations list is
\* empty when no relation from s to s is stored.
C10_DepthZeroOnlySelfLoops ==
  (Done(Main, "getRelatedNodes") /\ call[Main].depth = 0) =>
    LET s == call[Main].startingNodeName
    IN  /\ result[Main].value.entries = SelectSeq(stored.entries, LAMBDA e : e.name = s)
        /\ result[Main].value.relations =
             SelectSeq(stored.relations, LAMBDA r : r.from = s /\ r.to = s)

\* C10 witness: getRelatedNodes("A", 0) on a file with entity A, a relation
\* A -> A and a relation A -> B has returned entity A and the relation A -> A.
C10_Witness ==
  /\ Done(Main, "getRelatedNodes")
  /\ call[Main].startingNodeName = "A" /\ call[Main].depth = 0
  /\ \E i \in 1..Len(stored.relations) :
       stored.relations[i].from = "A" /\ stored.relations[i].to = "B"
  /\ Len(result[Main].value.entries) = 1
  /\ Len(result[Main].value.relations) = 1
  /\ result[Main].value.relations[1].to = "A"

\* The position in the log of caller p's read, open or write of the file; 0
\* when it has not happened.
At(event, p) ==
  IF \E i \in 1..Len(log) : log[i].event = event /\ log[i].by = p
  THEN CHOOSE i \in 1..Len(log) : log[i].event = event /\ log[i].by = p
  ELSE 0

\* Callers p and q both loaded the file before either saved it, p's save was
\* complete before q's began, and q's save is complete.
LoadedBeforeSaves(p, q) ==
  /\ p # q
  /\ 0 < At("read", p) /\ At("read", p) < At("open", p)
  /\ 0 < At("read", q) /\ At("read", q) < At("open", p)
  /\ At("open", p) < At("write", p)
  /\ At("write", p) < At("open", q)
  /\ At("open", q) < At("write", q)

\* The uuids of the lines of a file.
Uuids(lines) == {lines[i].uuid : i \in {j \in 1..Len(lines) : lines[j].type # "malformed"}}

C5_NoPartialRead ==
  \A r, w \in Procs :
    (/\ r # w
     /\ data[w] # <<>>
     /\ 0 < At("open", w) /\ At("open", w) < At("read", r)
     /\ At("write", w) = 0 \/ At("read", r) < At("write", w))
    => log[At("read", r)].lines \in {log[At("open", w)].lines, data[w]}

\* The same letter, whatever its case.
SameLetter(c, d) ==
  \/ c = d
  \/ \E i \in 1..Len(UpperCase) :
       {c, d} = {SubSeq(UpperCase, i, i), SubSeq(LowerCase, i, i)}

\* q is a case-insensitive substring of s.
Contains(s, q) ==
  \E at \in 0..(Len(s) - Len(q)) :
    \A k \in 1..Len(q) : SameLetter(SubSeq(s, at + k, at + k), SubSeq(q, k, k))

\* q is a case-insensitive substring of the entity's name, of its entityType or
\* of one of its observations.
EntityMatches(e, q) ==
  \/ Contains(e.name, q)
  \/ Contains(e.entityType, q)
  \/ \E i \in 1..Len(e.observations) : Contains(e.observations[i], q)

\* q is a case-insensitive substring of the relation's from, to or relationType.
RelationFieldMatches(r, q) ==
  Contains(r.from, q) \/ Contains(r.to, q) \/ Contains(r.relationType, q)

\* The names of the entities among entries that q matches.
MatchedNames(entries, q) ==
  {entries[i].name : i \in {j \in 1..Len(entries) : EntityMatches(entries[j], q)}}

\* Caller p has completed searchNodes(q) with the default pagination.
Searched(p) ==
  Done(p, "searchNodes") /\ call[p].pagination = DefaultPagination

C12_EntityMatchedByNameTypeOrObservation ==
  Searched(Main) =>
    LET q == call[Main].query
        found == result[Main].value.items.entries
    IN  /\ found = SelectSeq(stored.entries, LAMBDA e : EntityMatches(e, q))
        /\ \A i \in 1..Len(found) : EntityMatches(found[i], q)

\* C12 witness: searchNodes("RED") has returned B, whose second observation is
\* "Red", and neither A (observation "blue") nor the robot C.
C12_Witness ==
  /\ Searched(Main)
  /\ call[Main].query = "RED"
  /\ Len(stored.entries) = 3
  /\ stored.entries[1].observations = <<"blue">>
  /\ stored.entries[2].observations = <<"blue", "Red">>
  /\ stored.entries[3].entityType = "Robot"
  /\ result[Main].value.items.entries = <<stored.entries[2]>>

\* The positions of the lines of the file with the given type tag.
LinesOf(type) == {i \in 1..Len(file.lines) : file.lines[i].type = type}

\* C13: after any sequence of non-overlapping calls, getGraphStats returns the
\* number of stored entities as entityCount, the number of stored relations as
\* relationCount and the sum of the lengths of all entities' observations lists
\* as observationCount.
C13_StatsCountStoredRecords ==
  Done(Main, "getGraphStats") =>
    /\ result[Main].value.entityCount = Cardinality(LinesOf("entity"))
    /\ result[Main].value.relationCount = Cardinality(LinesOf("relation"))
    /\ result[Main].value.observationCount =
         Cardinality({<<i, j>> \in LinesOf("entity") \X (1..2 * MaxBatch) :
                        j <= Len(file.lines[i].observations)})

\* C13 witness: getGraphStats on a file with an entity without observations and
\* an entity with one observation has returned 2, 0 and 1.
C13_Witness ==
  /\ Done(Main, "getGraphStats")
  /\ Len(file.lines) = 2
  /\ file.lines[1].type = "entity" /\ file.lines[1].observations = <<>>
  /\ file.lines[2].type = "entity" /\ file.lines[2].observations = <<"o1">>
  /\ result[Main].value.entityCount = 2
  /\ result[Main].value.relationCount = 0
  /\ result[Main].value.observationCount = 1

\* C14: getGraphStats returns as lastUpdated the greatest updatedAt among all
\* stored entities and relations, and "N/A" exactly when the stored graph has
\* no entity and no relation.
C14_LastUpdatedIsLatest ==
  Done(Main, "getGraphStats") =>
    LET last == result[Main].value.lastUpdated
    IN  /\ last = [text |-> "N/A"] <=> file.lines = <<>>
        /\ file.lines # <<>> =>
             /\ \E i \in 1..Len(file.lines) : last = [time |-> file.lines[i].updatedAt]
             /\ \A i \in 1..Len(file.lines) : file.lines[i].updatedAt <= last.time

\* C14 witness: the first entity of the file was updated at time 2, the second
\* at time 1, and getGraphStats has returned time 2.
C14_Witness ==
  /\ Done(Main, "getGraphStats")
  /\ Len(file.lines) = 2
  /\ file.lines[1].updatedAt = 2
  /\ file.lines[2].updatedAt = 1
  /\ result[Main].value.lastUpdated = [time |-> 2]

\* Caller p has saved a graph, loaded it back and saved what it loaded.
Tripped(p) == Done(p, "roundTrip")

TagOf(line) ==
  IF line.kind = "json" /\ hasKey(line.object, "type") THEN valueOf(line.object, "type")
  ELSE "none"

\* The lines of the file caller p loaded that carry the given type tag.
TaggedLines(p, type) == SelectSeq(before[p].lines, LAMBDA line : TagOf(line) = type)

\* The records are those of the lines, in the same order, each with every key
\* and value of its line in the line's key order.
LoadedFrom(records, lines) ==
  /\ Len(records) = Len(lines)
  /\ \A i \in 1..Len(lines) :
       SelectSeq(records[i], LAMBDA pair : hasKey(lines[i].object, pair[1])) = lines[i].object

\* C16: loadGraph never fails because of one line: a line that is not valid
\* JSON and a line whose type tag is neither "entity" nor "relation" are
\* dropped, and every entity line and every relation line of the file is
\* loaded, in file order.
C16_BadLinesAreDropped ==
  Done(Main, "loadGraph") =>
    /\ ~result[Main].error
    /\ LoadedFrom(result[Main].value.entries, TaggedLines(Main, "entity"))
    /\ LoadedFrom(result[Main].value.relations, TaggedLines(Main, "relation"))

\* C16 witness: loadGraph on a file whose lines are an entity, text that is
\* not JSON and a relation has returned the entity and the relation.
C16_Witness ==
  /\ Done(Main, "loadGraph")
  /\ Len(before[Main].lines) = 3
  /\ TagOf(before[Main].lines[1]) = "entity"
  /\ before[Main].lines[2].kind = "text"
  /\ TagOf(before[Main].lines[3]) = "relation"
  /\ Len(result[Main].value.entries) = 1
  /\ Len(result[Main].value.relations) = 1

\* What call c yields on the empty graph at the given time.
OnEmptyGraph(c, timestamp, u) ==
  CASE c.op = "createEntities" -> createEntities(EmptyGraph, c.entities, timestamp, u)
    [] c.op = "createRelations" -> createRelations(EmptyGraph, c.relations, timestamp, u)
    [] c.op = "addObservations" -> addObservations(EmptyGraph, c.observations, timestamp, u)
    [] c.op = "deleteEntities" -> deleteEntities(EmptyGraph, c.entityNames, timestamp, u)
    [] c.op = "deleteObservations" -> deleteObservations(EmptyGraph, c.deletions, timestamp, u)
    [] c.op = "deleteRelations" -> deleteRelations(EmptyGraph, c.relations, timestamp, u)
    [] c.op = "getRelatedNodes" -> getRelatedNodes(EmptyGraph, c.startingNodeName, c.depth, u)
    [] c.op = "searchNodes" -> searchNodes(EmptyGraph, c.query, c.pagination, u)
    [] c.op = "readGraph" -> readGraph(EmptyGraph, c.pagination, c.filter, u)
    [] c.op = "getGraphStats" -> getGraphStats(EmptyGraph, u)

\* C17: when the backing file does not exist, every operation behaves as on an
\* empty graph and the missing file raises no error (the only error is that of
\* addObservations naming an entity, as on an empty graph; queries return empty
\* results; a create of at least one record creates the file); when reading the
\* file fails for another reason, the operation throws that failure and saves
\* nothing.
C17_MissingFileIsEmptyGraph ==
  pc[Main] = "done" =>
    /\ (~before[Main].exists /\ fault = "none") =>
         LET c == call[Main]
             empty == OnEmptyGraph(c, clock, 1)
         IN  /\ result[Main] = [value |-> empty.result, error |-> empty.error]
             /\ result[Main].error <=> (c.op = "addObservations" /\ c.observations # <<>>)
             /\ file = IF empty.save THEN [exists |-> TRUE, lines |-> saveLines(empty.graph)]
                        ELSE before[Main]
             /\ c.op = "getRelatedNodes" => result[Main].value = EmptyGraph
             /\ c.op \in {"readGraph", "searchNodes"} =>
                  /\ result[Main].value.items = EmptyGraph
                  /\ result[Main].value.total = 0
                  /\ ~result[Main].value.hasMore
             /\ c.op = "getGraphStats" =>
                  result[Main].value = [entityCount |-> 0, relationCount |-> 0,
                                        observationCount |-> 0, lastUpdated |-> [text |-> "N/A"]]
             /\ (c.op = "createEntities" /\ c.entities # <<>>) =>
                  file.exists /\ Len(file.lines) = Len(c.entities)
             /\ (c.op = "createRelations" /\ c.relations # <<>>) =>
                  file.exists /\ Len(file.lines) = Len(c.relations)
    /\ fault # "none" =>
         /\ result[Main] = [value |-> fault, error |-> TRUE]
         /\ data[Main] = <<>>
         /\ file = before[Main]

\* C17 witness: the backing file did not exist and createEntities of A has
\* returned A and created the file with A's line.
C17_Witness ==
  /\ Done(Main, "createEntities")
  /\ ~before[Main].exists
  /\ fault = "none"
  /\ ~result[Main].error
  /\ Len(result[Main].value) = 1
  /\ file.exists
  /\ Len(file.lines) = 1
  /\ file.lines[1].name = "A"

\* The lines of the file caller p loaded, by type tag.
LinesBefore(p, type) == SelectSeq(before[p].lines, LAMBDA line : line.type = type)

\* The (from, to, relationType) of a relation.
Triple(r) == <<r.from, r.to, r.relationType>>

\* The candidates of caller p's create call that are not in the file it loaded.
Survivors(p) ==
  IF call[p].op = "createEntities"
  THEN SelectSeq(call[p].entities, LAMBDA e : e.name \notin NamesBefore(p))
  ELSE SelectSeq(call[p].relations,
                 LAMBDA r : \A i \in 1..Len(before[p].lines) :
                              before[p].lines[i].type = "relation"
                                => Triple(before[p].lines[i]) # Triple(r))

Created(p) == pc[p] = "done" /\ call[p].op \in {"createEntities", "createRelations"}

\* C18: createEntities and createRelations hand the graph to fs.writeFile if and
\* only if at least one candidate is not in the graph they loaded; a batch
\* whose candidates all exist already, and an empty batch, leave the file as it
\* was, line for line.
C18_SaveOnlyWhenCreated ==
  Created(Main) =>
    /\ data[Main] # <<>> <=> Survivors(Main) # <<>>
    /\ Survivors(Main) # <<>> =>
         file.lines = data[Main] /\ Len(file.lines) = Len(before[Main].lines) + Len(Survivors(Main))
    /\ Survivors(Main) = <<>> => file = before[Main]

\* C18 witness: createEntities of a batch of two entities that are both stored
\* already has written nothing and the file is as it was.
C18_Witness ==
  /\ Done(Main, "createEntities")
  /\ Len(call[Main].entities) = 2
  /\ call[Main].entities[1].name # call[Main].entities[2].name
  /\ Survivors(Main) = <<>>
  /\ data[Main] = <<>>
  /\ file = before[Main]
  /\ Len(file.lines) >= 2

\* C19: createEntities (createRelations) returns exactly the records it
\* appended to the stored entities (relations), in input order: one for every
\* candidate whose name (triple) is not in the graph it loaded, with the
\* candidate's fields, a fresh uuid and the time of the call; candidates that
\* exist already are left out without error and the records already stored
\* stay as they were.
C19_CreateReturnsWhatItAppended ==
  Created(Main) =>
    LET new == result[Main].value
        entities == call[Main].op = "createEntities"
        newLines == IF entities THEN map(new, entityLine) ELSE map(new, relationLine)
    IN  /\ ~result[Main].error
        /\ Len(new) = Len(Survivors(Main))
        /\ \A i \in 1..Len(new) :
             /\ IF entities
                THEN /\ new[i].name = Survivors(Main)[i].name
                     /\ new[i].entityType = Survivors(Main)[i].entityType
                     /\ new[i].observations = Survivors(Main)[i].observations
                ELSE Triple(new[i]) = Triple(Survivors(Main)[i])
             /\ new[i].createdAt = clock /\ new[i].updatedAt = clock
             /\ new[i].uuid \notin Uuids(before[Main].lines)
             /\ \A j \in 1..Len(new) : new[j].uuid = new[i].uuid => j = i
        /\ file.lines = LinesBefore(Main, "entity") \o (IF entities THEN newLines ELSE <<>>)
                         \o LinesBefore(Main, "relation") \o (IF entities THEN <<>> ELSE newLines)

\* C19 witness: with A stored, createEntities([A, B]) has returned B only and
\* the file holds A's line as before, then B's.
C19_Witness ==
  /\ Done(Main, "createEntities")
  /\ Len(call[Main].entities) = 2
  /\ call[Main].entities[1].name = "A" /\ call[Main].entities[2].name = "B"
  /\ NamesBefore(Main) = {"A"}
  /\ Len(result[Main].value) = 1
  /\ result[Main].value[1].name = "B"
  /\ file.lines[1] = before[Main].lines[1]
  /\ file.lines[2] = entityLine(result[Main].value[1])

\* A stored relation that deleteRelations(relations) has to remove.
Matched(line, relations) ==
  line.type = "relation" /\ \E i \in 1..Len(relations) : Triple(relations[i]) = Triple(line)

\* C20: deleteRelations(rs) removes exactly the stored relations whose (from,
\* to, relationType) is that of some element of rs; elements of rs matching
\* nothing raise no error; all entities and all other relations stay stored, in
\* the same order and with all their fields.
C20_DeleteRelationsRemovesMatches ==
  Done(Main, "deleteRelations") =>
    /\ ~result[Main].error
    /\ file.lines = SelectSeq(before[Main].lines,
                              LAMBDA line : ~Matched(line, call[Main].relations))
    /\ \A i \in 1..Len(file.lines) : ~Matched(file.lines[i], call[Main].relations)

\* C20 witness: with an entity and the relations A -> B and B -> A stored,
\* deleteRelations of A -> B and of a triple that is not stored has left the
\* entity and B -> A.
C20_Witness ==
  /\ Done(Main, "deleteRelations")
  /\ Len(before[Main].lines) = 3
  /\ before[Main].lines[1].type = "entity"
  /\ before[Main].lines[2].type = "relation"
  /\ Triple(before[Main].lines[2]) = <<"A", "B", "knows">>
  /\ Triple(before[Main].lines[3]) = <<"B", "A", "knows">>
  /\ Len(call[Main].relations) = 2
  /\ Triple(call[Main].relations[1]) = <<"A", "B", "knows">>
  /\ Triple(call[Main].relations[2]) = <<"A", "B", "likes">>
  /\ file.lines = <<before[Main].lines[1], before[Main].lines[3]>>

\* The strings that the pairs of deletions naming the entity name list.
ListedFor(deletions, name) ==
  UNION {Range(deletions[i].observations) :
           i \in {j \in 1..Len(deletions) : deletions[j].entityName = name}}

\* A record without the fields that addObservations and deleteObservations
\* write.
Frame(line) == [line EXCEPT !.observations = <<>>, !.updatedAt = 0]

\* C21: deleteObservations never throws; it removes from every stored entity
\* that a pair names exactly the observations equal to a string listed for that
\* name, and changes such an entity's updatedAt only if it removed an
\* observation from it; pairs naming no stored entity are skipped, and every
\* other line of the file keeps all its fields.
C21_DeleteObservationsRemovesListed ==
  Done(Main, "deleteObservations") =>
    LET deletions == call[Main].deletions
        old == before[Main].lines
        new == file.lines
    IN  /\ ~result[Main].error
        /\ Len(new) = Len(old)
        /\ \A i \in 1..Len(old) :
             IF old[i].type = "entity"
                /\ \E j \in 1..Len(deletions) : deletions[j].entityName = old[i].name
             THEN /\ new[i].observations =
                       SelectSeq(old[i].observations,
                                 LAMBDA o : o \notin ListedFor(deletions, old[i].name))
                  /\ new[i].updatedAt # old[i].updatedAt =>
                       /\ Len(new[i].observations) < Len(old[i].observations)
                       /\ new[i].updatedAt = clock
                  /\ Frame(new[i]) = Frame(old[i])
             ELSE new[i] = old[i]

\* The position among lines of the first entity named name; 0 when there is none.
FirstNamed(lines, name) ==
  IF \E i \in 1..Len(lines) : lines[i].type = "entity" /\ lines[i].name = name
  THEN CHOOSE i \in 1..Len(lines) :
         /\ lines[i].type = "entity" /\ lines[i].name = name
         /\ \A j \in 1..(i - 1) : ~(lines[j].type = "entity" /\ lines[j].name = name)
  ELSE 0

\* The concatenation of the sequences of a sequence.
RECURSIVE Flatten(_)
Flatten(seqs) == IF seqs = <<>> THEN <<>> ELSE Head(seqs) \o Flatten(Tail(seqs))

\* What pair k of an addObservations batch has to add to the entity it names:
\* its contents, in input order, without the strings the entity holds when the
\* pair is handled, which are the strings stored for it and the contents of the
\* earlier pairs of the batch that name it.
ToAdd(observations, k, old) ==
  LET name == observations[k].entityName
      held == Range(old[FirstNamed(old, name)].observations)
              \cup UNION {Range(observations[j].contents) :
                            j \in {h \in 1..(k - 1) : observations[h].entityName = name}}
  IN  SelectSeq(observations[k].contents, LAMBDA c : c \notin held)

\* C22: a successful addObservations call reports, pair by pair and in input
\* order, the entity name and as addedObservations the given contents without
\* the strings the entity already holds; the entity a pair names ends with its
\* stored observations, in their order, followed by exactly the strings reported
\* for it; its updatedAt becomes the time of the call if it received a string
\* and stays as it was otherwise; nothing else in the file changes.
C22_AddObservationsAppendsNew ==
  (Done(Main, "addObservations") /\ ~result[Main].error) =>
    LET observations == call[Main].observations
        old == before[Main].lines
        new == file.lines
        added(i) == Flatten([k \in 1..Len(observations) |->
                               IF FirstNamed(old, observations[k].entityName) = i
                               THEN ToAdd(observations, k, old) ELSE <<>>])
    IN  /\ result[Main].value =
             [k \in 1..Len(observations) |->
                [entityName |-> observations[k].entityName,
                 addedObservations |-> ToAdd(observations, k, old)]]
        /\ Len(new) = Len(old)
        /\ \A i \in 1..Len(old) :
             IF old[i].type = "entity"
             THEN /\ new[i].observations = old[i].observations \o added(i)
                  /\ new[i].updatedAt = IF added(i) # <<>> THEN clock ELSE old[i].updatedAt
                  /\ Frame(new[i]) = Frame(old[i])
             ELSE new[i] = old[i]

\* C22 witness: A holds o2, o1 and B holds o1, both updated at time 1;
\* addObservations of o1, o3 to A at time 2 has reported o3, A holds o2, o1, o3
\* and is updated at time 2, and B is as it was.
C22_Witness ==
  /\ Done(Main, "addObservations")
  /\ call[Main].observations = <<[entityName |-> "A", contents |-> <<"o1", "o3">>]>>
  /\ Len(before[Main].lines) = 2
  /\ before[Main].lines[1].name = "A"
  /\ before[Main].lines[1].observations = <<"o2", "o1">>
  /\ before[Main].lines[2].name = "B"
  /\ before[Main].lines[2].observations = <<"o1">>
  /\ result[Main].value = <<[entityName |-> "A", addedObservations |-> <<"o3">>]>>
  /\ file.lines[1].observations = <<"o2", "o1", "o3">>
  /\ file.lines[1].updatedAt = 2
  /\ file.lines[2] = before[Main].lines[2]

\* updatedAt is not older than createdAt in every record of the sequence.
Ordered(records) == \A i \in 1..Len(records) : records[i].createdAt <= records[i].updatedAt

\* C23: with a non-decreasing clock, every entity and every relation of the
\* graph a call's loadGraph returns and of the lines a call hands to saveGraph
\* has updatedAt not older than createdAt, the records that loadGraph
\* backfilled with a uuid, a createdAt or an updatedAt included.
C23_UpdatedNotBeforeCreated ==
  pc[Main] = "done" =>
    LET graph == loadGraph(before[Main], "none", clock, 4).graph
    IN  /\ Ordered(graph.entries)
        /\ Ordered(graph.relations)
        /\ Ordered(data[Main])

\* The entity satisfies every clause of the filter f that is present.
KeepsEntity(e, f) ==
  /\ f.entityTypes # <<>> => e.entityType \in Range(f.entityTypes)
  /\ f.searchText # "" => EntityMatches(e, f.searchText)
  /\ f.fromDate # 0 => f.fromDate <= e.updatedAt
  /\ f.toDate # 0 => e.updatedAt <= f.toDate

\* The relation satisfies every clause of the filter f that is present.
KeepsRelation(r, f) ==
  /\ f.relationTypes # <<>> => r.relationType \in Range(f.relationTypes)
  /\ f.searchText # "" => RelationFieldMatches(r, f.searchText)
  /\ f.fromDate # 0 => f.fromDate <= r.updatedAt
  /\ f.toDate # 0 => r.updatedAt <= f.toDate

\* The elements of seq at the (0-based) positions offset .. offset + limit - 1.
Window(seq, offset, limit) ==
  [i \in 1..(IF Len(seq) - offset < limit
              THEN (IF Len(seq) < offset THEN 0 ELSE Len(seq) - offset)
              ELSE limit) |-> seq[offset + i]]

\* C24: readGraph(offset, limit, filter) returns the elements at positions
\* offset .. offset + limit - 1 of the filtered entities and, with the same
\* window, of the filtered relations; total is the larger of the two filtered
\* counts, and hasMore is true exactly when the filtered entities or the
\* filtered relations have an element at a position >= offset + limit.
C24_ReadGraphPages ==
  Done(Main, "readGraph") =>
    LET graph == stored
        f == call[Main].filter
        offset == call[Main].pagination.offset
        limit == call[Main].pagination.limit
        entities == SelectSeq(graph.entries, LAMBDA e : KeepsEntity(e, f))
        relations == SelectSeq(graph.relations, LAMBDA r : KeepsRelation(r, f))
        page == result[Main].value
    IN  /\ page.items.entries = Window(entities, offset, limit)
        /\ page.items.relations = Window(relations, offset, limit)
        /\ page.total >= Len(entities) /\ page.total >= Len(relations)
        /\ page.total \in {Len(entities), Len(relations)}
        /\ page.hasMore <=> (Len(entities) > offset + limit \/ Len(relations) > offset + limit)

\* C24 witness: with one entity and three relations kept by the filter,
\* readGraph(1, 1) has returned no entity and the second relation, total 3 and
\* hasMore, which only the relations account for.
C24_Witness ==
  /\ Done(Main, "readGraph")
  /\ call[Main].pagination = [offset |-> 1, limit |-> 1]
  /\ call[Main].filter.entityTypes = <<"Robot", "alien">>
  /\ call[Main].filter.searchText = ""
  /\ Len(stored.entries) = 3
  /\ Len(stored.relations) = 3
  /\ result[Main].value.items.entries = <<>>
  /\ result[Main].value.items.relations = <<stored.relations[2]>>
  /\ result[Main].value.total = 3
  /\ result[Main].value.hasMore

\* Caller p has completed a readGraph call whose page holds all that the
\* filter keeps.
ReadAll(p) == Done(p, "readGraph") /\ call[p].pagination = [offset |-> 0, limit |-> 1000]

\* C25: readGraph keeps an entity exactly when it satisfies every present
\* clause among entityTypes membership, case-insensitive searchText match on
\* name, entityType or an observation, and fromDate <= updatedAt <= toDate; it
\* keeps a relation exactly when it satisfies every present clause among
\* relationTypes membership, searchText match on from, to or relationType, and
\* the date bounds; entityTypes removes no relation, relationTypes removes no
\* entity, and a filter whose clauses are all absent or empty removes nothing.
C25_FilterClausesAreConjoined ==
  ReadAll(Main) =>
    LET graph == stored
        f == call[Main].filter
        items == result[Main].value.items
    IN  /\ items.entries = SelectSeq(graph.entries, LAMBDA e : KeepsEntity(e, f))
        /\ items.relations = SelectSeq(graph.relations, LAMBDA r : KeepsRelation(r, f))
        /\ items.entries =
             SelectSeq(graph.entries, LAMBDA e : KeepsEntity(e, [f EXCEPT !.relationTypes = <<>>]))
        /\ items.relations =
             SelectSeq(graph.relations, LAMBDA r : KeepsRelation(r, [f EXCEPT !.entityTypes = <<>>]))
        /\ f = NoFilter => items = graph

\* C25 witness: with all three entities and all three relations stored,
\* readGraph with entityTypes [person], searchText "b" and toDate 1 has returned
\* no entity (C is a person with an observation "blue", updated at time 2; B is
\* a robot) and the relation A -> B only.
C25_Witness ==
  /\ ReadAll(Main)
  /\ call[Main].filter = [entityTypes |-> <<"person">>, relationTypes |-> <<>>,
                           searchText |-> "b", fromDate |-> 0, toDate |-> 1]
  /\ Len(stored.entries) = 3
  /\ Len(stored.relations) = 3
  /\ result[Main].value.items.entries = <<>>
  /\ result[Main].value.items.relations = <<stored.relations[1]>>

QueryOps == {"readGraph", "searchNodes", "getRelatedNodes", "getGraphStats"}

\* Caller p has completed a query.
Queried(p) == pc[p] = "done" /\ call[p].op \in QueryOps

\* What the query c returns on the graph that loadGraph yields for the file f
\* now.
QueryOn(c, f) ==
  LET l == loadGraph(f, "none", clock, nextUuid)
  IN  CASE c.op = "readGraph" -> readGraph(l.graph, c.pagination, c.filter, l.u).result
        [] c.op = "searchNodes" -> searchNodes(l.graph, c.query, c.pagination, l.u).result
        [] c.op = "getRelatedNodes" -> getRelatedNodes(l.graph, c.startingNodeName, c.depth, l.u).result
        [] c.op = "getGraphStats" -> getGraphStats(l.graph, l.u).result

Legacy(f) == \E i \in 1..Len(f.lines) : f.lines[i].uuid = 0

\* The records without the uuid, createdAt and updatedAt of those that carry a
\* uuid the file f does not hold (the records loadGraph backfilled).
BlindRecords(records, f) ==
  [i \in 1..Len(records) |->
     IF \E j \in 1..Len(f.lines) : f.lines[j].uuid = records[i].uuid
     THEN records[i]
     ELSE [records[i] EXCEPT !.uuid = 0, !.createdAt = 0, !.updatedAt = 0]]

BlindGraph(graph, f) ==
  [entries |-> BlindRecords(graph.entries, f), relations |-> BlindRecords(graph.relations, f)]

\* The result of the query c on the file f without what loadGraph invented for
\* legacy records: their uuid, createdAt and updatedAt, and a lastUpdated
\* computed from them.
Blind(c, value, f) ==
  CASE c.op = "getRelatedNodes" -> BlindGraph(value, f)
    [] c.op \in {"readGraph", "searchNodes"} -> [value EXCEPT !.items = BlindGraph(@, f)]
    [] c.op = "getGraphStats" ->
         IF Legacy(f) THEN [value EXCEPT !.lastUpdated = [time |-> 0]] ELSE value

C27_QueriesDoNotWrite ==
  Queried(Main) =>
    /\ data[Main] = <<>>
    /\ file = before[Main]

\* C27 witness: readGraph on a file whose first line is a legacy entity has
\* returned that entity with a uuid and timestamps, and the line in the file is
\* still without them.
C27_Witness ==
  /\ Done(Main, "readGraph")
  /\ Len(file.lines) >= 1
  /\ file.lines[1].uuid = 0 /\ file.lines[1].createdAt = 0 /\ file.lines[1].updatedAt = 0
  /\ result[Main].value.items.entries[1].uuid >= 4
  /\ result[Main].value.items.entries[1].createdAt = clock
  /\ file = before[Main]

\* The caller whose call was the last to complete.
Latest == IF pc[2] = "done" THEN 2 ELSE Main

\* C28: a relation that the file holds when an operation starts is, after the
\* operation, either in the file with all its fields as they were (uuid,
\* createdAt, updatedAt, from, to, relationType) or not in the file, and then
\* the operation was deleteEntities or deleteRelations; addObservations and
\* deleteObservations leave every entity's uuid, createdAt, name and entityType
\* as they were.
C28_StoredRecordsKeepTheirFields ==
  pc[Latest] = "done" =>
    LET old == before[Latest].lines
        new == file.lines
    IN  /\ \A i \in 1..Len(old) :
             old[i].type = "relation" =>
               IF \E j \in 1..Len(new) : new[j].uuid = old[i].uuid
               THEN \A j \in 1..Len(new) : new[j].uuid = old[i].uuid => new[j] = old[i]
               ELSE call[Latest].op \in {"deleteEntities", "deleteRelations"}
        /\ call[Latest].op \in {"addObservations", "deleteObservations"} /\ ~result[Latest].error =>
             /\ Len(new) = Len(old)
             /\ \A i \in 1..Len(old) :
                  old[i].type = "entity" =>
                    /\ new[i].uuid = old[i].uuid
                    /\ new[i].createdAt = old[i].createdAt
                    /\ new[i].name = old[i].name
                    /\ new[i].entityType = old[i].entityType

\* C28 witness: an entity and a relation were created at time 1;
\* addObservations at time 2 has appended an observation to the entity, whose
\* updatedAt is now 2 while its uuid and createdAt are as before, and the
\* relation's line is as it was, updatedAt 1 included.
C28_Witness ==
  /\ Done(Main, "addObservations")
  /\ pc[2] = "idle"
  /\ clock = 2
  /\ Len(before[Main].lines) = 2
  /\ before[Main].lines[1].type = "entity"
  /\ before[Main].lines[2].type = "relation"
  /\ before[Main].lines[2].updatedAt = 1
  /\ Len(file.lines) = 2
  /\ file.lines[1].updatedAt = 2
  /\ file.lines[1].createdAt = 1
  /\ file.lines[1].uuid = before[Main].lines[1].uuid
  /\ file.lines[2] = before[Main].lines[2]

\* The entity lines of a file.
EntityLines(f) == SelectSeq(f.lines, LAMBDA line : line.type = "entity")

\* C29: an operation other than createEntities adds no entity to the file:
\* createRelations leaves the entity lines as they were, also when it stores a
\* relation whose from or to names no stored entity, and addObservations that
\* does not find an entity throws and leaves the file as it was; after
\* createEntities every stored entity name was stored before or is a name
\* passed in the call.
C29_EntitiesOnlyFromCreateEntities ==
  pc[Latest] = "done" =>
    LET c == call[Latest]
        old == EntityLines(before[Latest])
        new == EntityLines(file)
        names(lines) == {lines[i].name : i \in 1..Len(lines)}
    IN  /\ c.op # "createEntities" =>
             /\ names(new) \subseteq names(old)
             /\ Len(new) <= Len(old)
        /\ c.op = "createEntities" =>
             names(new) \subseteq names(old) \cup {c.entities[i].name : i \in 1..Len(c.entities)}
        /\ c.op = "createRelations" =>
             /\ new = old
             /\ \A i \in 1..Len(c.relations) :
                  \E j \in 1..Len(file.lines) :
                    file.lines[j].type = "relation" /\ Triple(file.lines[j]) = Triple(c.relations[i])
        /\ (c.op = "addObservations" /\ result[Latest].error) => file = before[Latest]

\* C29 witness: with only A stored, createRelations of A -> C has stored the
\* relation and no entity named C.
C29_Witness ==
  /\ Done(Main, "createRelations")
  /\ NamesBefore(Main) = {"A"}
  /\ call[Main].relations = <<[from |-> "A", to |-> "C", relationType |-> "knows"]>>
  /\ Len(result[Main].value) = 1
  /\ \E j \in 1..Len(file.lines) :
       file.lines[j].type = "relation" /\ file.lines[j].to = "C"
  /\ \A j \in 1..Len(file.lines) : file.lines[j].type = "entity" => file.lines[j].name = "A"

\* C30: when addObservations throws because a pair names a missing entity,
\* it hands nothing to fs.writeFile and the backing file is exactly as it was
\* before the call: what earlier pairs of the batch appended to stored entities
\* is not written and no updatedAt is changed.
C30_FailedAddLeavesFile ==
  (Done(Main, "addObservations") /\ result[Main].error) =>
    /\ data[Main] = <<>>
    /\ file = before[Main]

\* C30 witness: addObservations at time 2 of a new string for the stored
\* entity A and then of a string for C, which is not stored, has thrown, and
\* A's line is as it was, without the string and updated at time 1.
C30_Witness ==
  /\ Done(Main, "addObservations")
  /\ result[Main].error
  /\ call[Main].observations = <<[entityName |-> "A", contents |-> <<"o3", "o3">>],
                                  [entityName |-> "C", contents |-> <<"o1", "o3">>]>>
  /\ Len(file.lines) = 1
  /\ file.lines[1].name = "A"
  /\ file.lines[1].observations = <<"o1">>
  /\ file.lines[1].updatedAt = 1
  /\ clock = 2

\* Callers p and q both read the file before either opened it for writing, and
\* both calls are complete.
BothLoadedFirst(p, q) ==
  /\ p # q
  /\ pc[p] = "done" /\ pc[q] = "done"
  /\ 0 < At("read", p) /\ 0 < At("read", q)
  /\ \A w \in {p, q} : At("open", w) = 0 \/
       (At("read", p) < At("open", w) /\ At("read", q) < At("open", w))

\* The number of entities of a batch, or of entity lines of a file, named name.
NamedIn(records, name) ==
  Cardinality({i \in 1..Len(records) : records[i].type # "malformed" /\ records[i].name = name})

InBatch(entities, name) == Cardinality({i \in 1..Len(entities) : entities[i].name = name})

\* C31: when two createEntities calls that each name an entity once overlap
\* (both load the file before either saves it), the file holds, once both
\* calls are complete, at most one entity of that name.
C31_OverlapKeepsNamesUnique ==
  \A p, q \in Procs : \A name \in Names :
    (/\ BothLoadedFirst(p, q)
     /\ call[p].op = "createEntities" /\ call[q].op = "createEntities"
     /\ InBatch(call[p].entities, name) = 1
     /\ InBatch(call[q].entities, name) = 1)
    => NamedIn(file.lines, name) <= 1

\* The names that occur in the relations of the file caller p loaded, and the
\* name it started from.
NamesSeen(p) ==
  {call[p].startingNodeName}
    \cup UNION {{before[p].lines[i].from, before[p].lines[i].to} :
                  i \in {j \in 1..Len(before[p].lines) : before[p].lines[j].type = "relation"}}

Looping(p) == pc[p] = "looping"

\* C32: getRelatedNodes terminates for every stored graph (with cycles and
\* self-loops) and every depth (Infinity included): while its loop runs, no
\* name has entered nodesToProcess twice and the number of iterations done is
\* at most the number of names of the graph; and a loop that has started ends,
\* with the depth levels done or nodesToProcess empty.
C32_GetRelatedNodesTerminates ==
  /\ [](\A p \in Procs :
          Looping(p) =>
            /\ Unique(result[p].value.entered, LAMBDA n : n)
            /\ result[p].value.currentDepth <= Cardinality(NamesSeen(p))
            /\ result[p].value.currentDepth <= call[p].depth)
  /\ \A p \in Procs : Looping(p) ~> Done(p, "getRelatedNodes")

\* C32 witness: on a file with the cycle A -> B -> C -> A and a self-loop or a
\* second relation between two of them, a call with depth Infinity has returned
\* (its loop ended on an empty nodesToProcess).
C32_Witness ==
  /\ Done(Main, "getRelatedNodes")
  /\ call[Main].depth = Infinity
  /\ \E i, j, k \in 1..Len(before[Main].lines) :
       /\ before[Main].lines[i].from = "A" /\ before[Main].lines[i].to = "B"
       /\ before[Main].lines[j].from = "B" /\ before[Main].lines[j].to = "C"
       /\ before[Main].lines[k].from = "C" /\ before[Main].lines[k].to = "A"
  /\ Len(result[Main].value.relations) = 3

\* The names of the entities of a sequence of records.
NamesOf(records) == {records[i].name : i \in 1..Len(records)}

\* C33: getRelatedNodes returns only entities the file holds; a name that names
\* no stored entity (the start name, or a name met only as an end of a
\* relation) is absent from the returned entries but is traversed: the stored
\* entities and relations within depth hops through it are returned, a relation
\* whatever its ends name.
C33_OnlyStoredEntitiesReturned ==
  Done(Main, "getRelatedNodes") =>
    LET lines == before[Main].lines
        near == Within(LinesBefore(Main, "relation"), call[Main].startingNodeName,
                       call[Main].depth)
        returned == result[Main].value
    IN  /\ \A i \in 1..Len(returned.entries) :
             \E j \in 1..Len(lines) : lines[j] = returned.entries[i]
        /\ \A n \in Names \ NamesOf(LinesBefore(Main, "entity")) :
             n \notin NamesOf(returned.entries)
        /\ \A j \in 1..Len(lines) :
             lines[j].type = "entity" /\ lines[j].name \in near
               => \E i \in 1..Len(returned.entries) : returned.entries[i] = lines[j]
        /\ \A j \in 1..Len(lines) :
             lines[j].type = "relation" /\ lines[j].from \in near /\ lines[j].to \in near
               => \E i \in 1..Len(returned.relations) : returned.relations[i] = lines[j]

\* C33 witness: the file holds entity C only and the relations A -> B, B -> C;
\* getRelatedNodes("A", 2) has returned entity C alone, reached through the
\* names A and B that name no entity, and both relations, whose ends A and B
\* are not among the returned entries.
C33_Witness ==
  /\ Done(Main, "getRelatedNodes")
  /\ call[Main].startingNodeName = "A" /\ call[Main].depth = 2
  /\ NamesOf(LinesBefore(Main, "entity")) = {"C"}
  /\ Len(LinesBefore(Main, "relation")) = 2
  /\ LinesBefore(Main, "relation")[1].from = "A" /\ LinesBefore(Main, "relation")[1].to = "B"
  /\ LinesBefore(Main, "relation")[2].from = "B" /\ LinesBefore(Main, "relation")[2].to = "C"
  /\ NamesOf(result[Main].value.entries) = {"C"}
  /\ Len(result[Main].value.relations) = 2

\* The stored entities and relations that the client's call c matches,
\* whatever the page.
MatchedBy(c) ==
  IF c.op = "searchNodes"
  THEN [entries |-> SelectSeq(stored.entries, LAMBDA e : EntityMatches(e, c.query)),
        relations |-> SelectSeq(stored.relations,
                                LAMBDA r : \/ RelationFieldMatches(r, c.query)
                                           \/ {r.from, r.to} \subseteq
                                                MatchedNames(stored.entries, c.query))]
  ELSE [entries |-> SelectSeq(stored.entries, LAMBDA e : KeepsEntity(e, c.filter)),
        relations |-> SelectSeq(stored.relations, LAMBDA r : KeepsRelation(r, c.filter))]

\* Caller p has a page of a paged call; it is the last page when hasMore is
\* false.
Paging(p) == pc[p] = "done" /\ call[p].op \in {"searchNodes", "readGraph"}

LastPage(p) == Paging(p) /\ ~result[p].value.hasMore

\* The pages caller p has got, concatenated.
Pages(p) ==
  [entries |-> call[p].seen.entries \o result[p].value.items.entries,
   relations |-> call[p].seen.relations \o result[p].value.items.relations]

\* C34: a client that starts at offset 0 with a fixed limit >= 1 and follows
\* nextOffset while hasMore is true has, after each page, the first
\* offset + limit matched entities and the first offset + limit matched
\* relations, each once and in order; every page after the first starts below
\* total; it reaches a page with hasMore false, and then it has every matched
\* entity and every matched relation exactly once.
C34_PagingCoversMatchesOnce ==
  /\ [](\A p \in Procs :
          Paging(p) =>
            LET end == call[p].pagination.offset + call[p].pagination.limit
            IN  /\ Pages(p).entries = Window(MatchedBy(call[p]).entries, 0, end)
                /\ Pages(p).relations = Window(MatchedBy(call[p]).relations, 0, end)
                /\ call[p].pagination.offset = 0
                     \/ call[p].pagination.offset < result[p].value.total
                /\ LastPage(p) => Pages(p) = MatchedBy(call[p]))
  /\ \A p \in Procs : Paging(p) ~> LastPage(p)

\* C34 witness: with a limit of 1, the client has got its third and last page
\* of a search that matches two entities and three relations: the last page
\* holds no entity and one relation.
C34_Witness ==
  /\ LastPage(Main)
  /\ call[Main].op = "searchNodes"
  /\ call[Main].pagination = [offset |-> 2, limit |-> 1]
  /\ Len(MatchedBy(call[Main]).entries) = 2
  /\ Len(MatchedBy(call[Main]).relations) = 3
  /\ result[Main].value.items.entries = <<>>
  /\ Len(result[Main].value.items.relations) = 1

\* nextOffset of caller p's response is present exactly when hasMore is true,
\* and is then offset + limit.
NextOffsetFollowsHasMore(p) ==
  result[p].value.nextOffset =
    IF result[p].value.hasMore
    THEN {call[p].pagination.offset + call[p].pagination.limit}
    ELSE {}

\* C35: in every response of readGraph and of searchNodes, nextOffset is
\* present exactly when hasMore is true, and then equals offset + limit.
C35_NextOffsetIffHasMore ==
  \A p \in Procs : Paging(p) => NextOffsetFollowsHasMore(p)

\* The number of lines of the file that carry the uuid.
WithUuid(lines, uuid) ==
  Cardinality({i \in 1..Len(lines) : lines[i].type # "malformed" /\ lines[i].uuid = uuid})

\* C36: the records that one createEntities or createRelations call created
\* all carry the timestamp of the call as createdAt and as updatedAt, and
\* uuids that are pairwise distinct and that no line of the file carried
\* before the call (so that each is the uuid of exactly one line afterwards,
\* the lines the load backfilled with a uuid included).
C36_BatchSharesTimestampAndFreshUuids ==
  Created(Main) =>
    LET new == result[Main].value
    IN  \A i \in 1..Len(new) :
          /\ new[i].createdAt = clock /\ new[i].updatedAt = clock
          /\ new[i].createdAt = new[1].createdAt /\ new[i].updatedAt = new[1].updatedAt
          /\ \A j \in 1..Len(new) : i # j => new[i].uuid # new[j].uuid
          /\ new[i].uuid # 0
          /\ WithUuid(before[Main].lines, new[i].uuid) = 0
          /\ WithUuid(file.lines, new[i].uuid) = 1

\* C36 witness: on a file that holds a line without a uuid, stamped at time 1
\* or not at all, a createRelations call at time 2 has created two relations.
C36_Witness ==
  /\ Created(Main)
  /\ call[Main].op = "createRelations"
  /\ Len(result[Main].value) = 2
  /\ clock = 2
  /\ Legacy(before[Main])

\* The line lacks its uuid, its createdAt or its updatedAt.
Lacks(line) == line.uuid = 0 \/ line.createdAt = 0 \/ line.updatedAt = 0

\* The records of the whole graph that caller p's readGraph returned, entities
\* first.
ReadRecords(p) == result[p].value.items.entries \o result[p].value.items.relations

\* C37: a line that lacks its uuid, its createdAt or its updatedAt is loaded
\* with a uuid that no line of the file has and with the time of the load as
\* both createdAt and updatedAt; a line that carries the three fields is loaded
\* as it is.
C37_LegacyRecordsAreStamped ==
  Done(Main, "readGraph") =>
    LET lines == before[Main].lines
    IN  /\ Len(ReadRecords(Main)) = Len(lines)
        /\ \A i \in 1..Len(lines) :
             IF Lacks(lines[i])
             THEN /\ ReadRecords(Main)[i].uuid \notin Uuids(lines)
                  /\ ReadRecords(Main)[i].createdAt = clock
                  /\ ReadRecords(Main)[i].updatedAt = clock
             ELSE ReadRecords(Main)[i] = lines[i]

\* Caller p's latest call saved the graph, and its result is not yet taken.
Saved(p) == pc[p] = "done" /\ data[p] # <<>>

\* C38: two loads of the same file contents, with no save in between, give a
\* line without a uuid different uuids (a reader's load against another
\* reader's, or against the load of a call that then saved); a load of the file
\* that a call saved returns every record with the uuid, createdAt and
\* updatedAt that were saved, at whatever time it is made.
C38_BackfillStableOnlyAfterSave ==
  \A p, q \in Procs :
    p # q /\ ReadAll(q) =>
      /\ ReadAll(p) /\ before[p] = before[q] =>
           \A i \in 1..Len(before[q].lines) :
             before[q].lines[i].uuid = 0 => ReadRecords(p)[i].uuid # ReadRecords(q)[i].uuid
      /\ Saved(p) /\ before[p] = before[q] =>
           \A i \in 1..Len(before[q].lines) :
             before[q].lines[i].uuid = 0 => data[p][i].uuid # ReadRecords(q)[i].uuid
      /\ Saved(p) /\ before[q].lines = data[p] =>
           /\ Len(ReadRecords(q)) = Len(data[p])
           /\ \A i \in 1..Len(data[p]) :
                /\ ReadRecords(q)[i].uuid = data[p][i].uuid
                /\ ReadRecords(q)[i].createdAt = data[p][i].createdAt
                /\ ReadRecords(q)[i].updatedAt = data[p][i].updatedAt

\* C38 witness: the file held entity A without uuid and timestamps;
\* createEntities([B]) at time 1 saved A with the uuid and the time its load
\* gave it, and a readGraph at time 2 has returned A with that uuid and time 1.
C38_Witness ==
  /\ Saved(Main)
  /\ Legacy(before[Main])
  /\ ReadAll(2)
  /\ before[2].lines = data[Main]
  /\ clock = 2
  /\ ReadRecords(2)[1].name = "A"
  /\ ReadRecords(2)[1].uuid = data[Main][1].uuid
  /\ ReadRecords(2)[1].createdAt = 1

\* The path that the latest setMemoryFilePath call with a non-empty path gave,
\* Null when there was no such call.
PathGiven(calls) ==
  LET given == {i \in 1..Len(calls) :
                  calls[i].event = "setMemoryFilePath" /\ calls[i].filePath # ""}
  IN  IF given = {} THEN Null ELSE calls[Max(given)].filePath

\* Caller p makes a call in this step.
Calls(p) == pc[p] = "idle" /\ pc'[p] # "idle"

\* C39: a graph operation called before any setMemoryFilePath call with a
\* non-empty path throws "Memory file path not set" and writes nothing;
\* setMemoryFilePath("") throws and the path stays the one given by the latest
\* call with a non-empty path, with which the operations called afterwards
\* run (they throw only for an entity that is not found).
C39_NoPathNoOperation ==
  [][\A p \in Procs :
       Calls(p) =>
         IF call'[p].op = "setMemoryFilePath"
         THEN /\ call'[p].filePath = "" =>
                   /\ result'[p].error
                   /\ memoryFilePath' = PathGiven(log)
              /\ call'[p].filePath # "" => ~result'[p].error /\ memoryFilePath' = call'[p].filePath
         ELSE IF PathGiven(log) = Null
         THEN /\ pc'[p] = "done"
              /\ result'[p] = [value |-> NotSet, error |-> TRUE]
              /\ data'[p] = <<>>
              /\ file' = file
         ELSE /\ memoryFilePath = PathGiven(log)
              /\ result'[p].error => result'[p].value = "Entity not found"]_vars

\* C39 witness: createEntities, called before any path was given, threw and
\* the file is still missing; then setMemoryFilePath gave a path, and a later
\* setMemoryFilePath("") threw and left that path.
C39_Witness ==
  /\ Done(Main, "createEntities")
  /\ Len(call[Main].entities) > 0
  /\ result[Main] = [value |-> NotSet, error |-> TRUE]
  /\ ~file.exists
  /\ Done(2, "setMemoryFilePath")
  /\ call[2].filePath = ""
  /\ result[2].error
  /\ PathGiven(log) = DefaultPath
  /\ memoryFilePath = DefaultPath

\* An initialize request has completed without an error.
Initialized == \E i \in 1..Len(log) : log[i].event = "initialized" /\ log[i].ok

\* What config.get('memoryFilePath') returns for the config file f: the default
\* path when the file is missing, its memoryFilePath made absolute otherwise.
ConfiguredPath(f) ==
  IF f.code = "ENOENT" THEN DefaultPath
  ELSE IF SubSeq(f.memoryFilePath, 1, 1) = "/" THEN f.memoryFilePath
  ELSE "/cwd/" \o f.memoryFilePath

\* C40: a tool call handled while no initialize request has completed (none
\* was received, one is pending, or all failed) is rejected with "Knowledge
\* graph manager is not initialized", loads nothing and writes nothing; a tool
\* call handled after an initialize request completed is not rejected so, and
\* the manager that serves it has the configured memoryFilePath.
C40_ToolCallsNeedInitialization ==
  [][\A p \in Procs :
       Calls(p) /\ call'[p].op # "initialize" =>
         IF ~Initialized
         THEN /\ call'[p].op = "callTool"
              /\ result'[p] = [value |-> NotInitialized, error |-> TRUE]
              /\ before'[p] = before[p]
              /\ file' = file /\ data' = data /\ nextUuid' = nextUuid
         ELSE /\ result'[p].error => result'[p].value \in ToolErrors
              /\ memoryFilePath = ConfiguredPath(configFile)
              /\ memoryFilePath = config.memoryFilePath]_vars

\* C40 witness: a tool call made while the first initialize request was
\* pending was rejected; after that request completed, with a config file that
\* gives a relative path, create_entities created entity A in the file.
C40_Witness ==
  /\ Len(log) >= 3
  /\ log[1].event = "initialize"
  /\ log[2].event = "rejected" /\ log[2].by = Main
  /\ log[3].event = "initialized" /\ log[3].ok
  /\ configFile.memoryFilePath = "memory.jsonl"
  /\ memoryFilePath = "/cwd/memory.jsonl"
  /\ Done(Main, "createEntities")
  /\ Len(result[Main].value) = 1
  /\ file.exists


====
